---- MODULE Spec2Model ----
(***************************************************************************)
(* Composite health aggregation engine of mini-shop-integration:           *)
(* diagnostics/master_analyzer.py (MasterAnalyzer, main) together with the *)
(* probe clients it drives (diagnostics/monitoring_bridge.py,              *)
(* ai-analysis/smart_analyzer.py, diagnostics/network_analyzer.py,         *)
(* ai-reporter/insight_generator.py).                                      *)
(*                                                                         *)
(* Python dicts are records; a missing key is a missing field (see Get).   *)
(* Timestamps, report ids and free-text error strings are left out: no     *)
(* code path reads them (analyze_with_patterns_at keeps the timestamp of   *)
(* a log analysis).  The emoji prefix of a status or recommendation   *)
(* string is dropped (the green-circle "OK" is "OK", the red-circle        *)
(* "CRITICAL" is "CRITICAL", ...).  An exception that leaves a function is *)
(* the value Raise(kind); try/except is written out where the source has   *)
(* it.                                                                     *)
(***************************************************************************)
EXTENDS Integers, Sequences, FiniteSets, TLC

VARIABLES pc, env, use_ai, health_data, performance_data, logs_data,
          network_data, backend, ai_insights, master_report, sink

vars == <<pc, env, use_ai, health_data, performance_data, logs_data,
          network_data, backend, ai_insights, master_report, sink>>

----------------------------------------------------------------------------
(* Bounds of the model *)

\* largest number of lines `docker ps` answers with
MaxContainers == 5

\* largest number of log entries one log query answers with
MaxEntries == 51

\* longest log text, in lines, given to analyze_with_patterns on its own
MaxLines == 2

\* how often analyze_with_patterns is called on one text
MaxCalls == 2

\* longest metric series given to the trend analysis
MaxSamples == 4

----------------------------------------------------------------------------
(* Python helpers *)

\* dict.get(k, default)
Get(d, k, default) == IF k \in DOMAIN d THEN d[k] ELSE default

\* an exception of the given kind leaving a function
Raise(kind) == [raised |-> kind]

IsRaise(x) == "raised" \in DOMAIN x

\* the value a variable holds before the code has assigned it
Unset == [unset |-> TRUE]

IsSet(x) == "unset" \notin DOMAIN x

RECURSIVE SeqToSet(_)
SeqToSet(s) == IF s = <<>> THEN {} ELSE {Head(s)} \cup SeqToSet(Tail(s))

----------------------------------------------------------------------------
(* monitoring_bridge.py *)

ServiceNames == {"app", "prometheus", "loki", "grafana"}

\* what one HTTP GET can come back with
HttpOutcomes == {"200", "non200", "timeout", "connerr"}

TotalServices == 4

ExpectedContainers == 4

\* any HTTP answer counted as a healthy service
fast_curl_check_any_answer(outcome) == outcome \in {"200", "non200"}

\* requests.get(url, timeout=timeout); any exception gives False
_fast_curl_check(outcome) == outcome = "200"

\* what `docker ps --quiet` (timeout 5) can come back with
DockerOutcomes ==
    [kind : {"ok"}, lines : 0..MaxContainers] \cup [kind : {"timeout", "oserror"}]

\* len of the non-empty output lines, 0 when subprocess.run raises
container_count(docker) == IF docker.kind = "ok" THEN docker.lines ELSE 0

\* the OK label also asking for the expected containers
get_quick_status_strict(svc, docker, rt) ==
    LET services == [s \in ServiceNames |-> _fast_curl_check(svc[s])]
        services_ok == Cardinality({s \in ServiceNames : services[s]})
    IN  [ response_time_ms |-> rt,
          services   |-> [ total |-> TotalServices,
                           available |-> services_ok,
                           details |-> services ],
          containers |-> [ running |-> container_count(docker),
                           expected |-> ExpectedContainers ],
          status     |-> IF services_ok = 4 /\ container_count(docker) >= 4
                         THEN "OK"
                         ELSE IF services_ok >= 2 THEN "PARTIAL"
                         ELSE "CRITICAL" ]

get_quick_status(svc, docker, rt) ==
    LET services == [s \in ServiceNames |-> _fast_curl_check(svc[s])]
        services_ok == Cardinality({s \in ServiceNames : services[s]})
    IN  [ response_time_ms |-> rt,
          services   |-> [ total |-> TotalServices,
                           available |-> services_ok,
                           details |-> services ],
          containers |-> [ running |-> container_count(docker),
                           expected |-> ExpectedContainers ],
          status     |-> IF services_ok = 4 THEN "OK"
                         ELSE IF services_ok >= 2 THEN "PARTIAL"
                         ELSE "CRITICAL" ]

\* what running one metrics shell script can come back with
ScriptOutcomes == {"ok", "missing", "timeout"}

\* get_system_metrics / get_container_metrics: the dict holds 'output' only
\* when the script ran; every failure is the dict {'error': ...}
get_system_metrics(script) ==
    IF script = "ok" THEN [source |-> "bash_script", output |-> "text"]
    ELSE [error |-> script]

get_container_metrics(script) ==
    IF script = "ok" THEN [source |-> "bash_script", output |-> "text"]
    ELSE [error |-> script]

\* get_detailed_report(use_ai=False): the quick status plus the system metrics
get_detailed_report(svc, docker, rt, script) ==
    LET base_status == get_quick_status(svc, docker, rt)
    IN  [ response_time_ms |-> base_status.response_time_ms,
          services |-> base_status.services,
          containers |-> base_status.containers,
          status |-> base_status.status,
          system_metrics |-> get_system_metrics(script) ]

----------------------------------------------------------------------------
(* master_analyzer.py: analyze_system_health, analyze_performance *)

\* 10 points per unreachable service
health_score_of_light(quick_status) ==
    100
    - (IF quick_status.status # "OK" THEN 30 ELSE 0)
    - (IF quick_status.services.available < quick_status.services.total
       THEN 10 * (quick_status.services.total - quick_status.services.available)
       ELSE 0)
    - (IF quick_status.containers.running < quick_status.containers.expected
       THEN 15 ELSE 0)

health_score_of(quick_status) ==
    100
    - (IF quick_status.status # "OK" THEN 30 ELSE 0)
    - (IF quick_status.services.available < quick_status.services.total
       THEN 20 * (quick_status.services.total - quick_status.services.available)
       ELSE 0)
    - (IF quick_status.containers.running < quick_status.containers.expected
       THEN 15 ELSE 0)

\* the WARNING band reaching down to 15
health_level_of_lenient(health_score) ==
    IF health_score >= 90 THEN "EXCELLENT"
    ELSE IF health_score >= 70 THEN "GOOD"
    ELSE IF health_score >= 15 THEN "WARNING"
    ELSE "CRITICAL"

health_level_of(health_score) ==
    IF health_score >= 90 THEN "EXCELLENT"
    ELSE IF health_score >= 70 THEN "GOOD"
    ELSE IF health_score >= 50 THEN "WARNING"
    ELSE "CRITICAL"

analyze_system_health(svc, docker, rt, script) ==
    LET quick_status == get_quick_status(svc, docker, rt)
        system_metrics == get_system_metrics(script)
        container_metrics == get_container_metrics(script)
        health_score == health_score_of(quick_status)
    IN  [ health_score |-> health_score,
          health_level |-> health_level_of(health_score),
          quick_status |-> quick_status,
          system_metrics_available |-> "output" \in DOMAIN system_metrics,
          container_metrics_available |-> "output" \in DOMAIN container_metrics ]

\* SLOW from 1000 ms on
performance_level_of_early(response_time_ms) ==
    IF response_time_ms >= 1000 THEN "SLOW"
    ELSE IF response_time_ms > 500 THEN "MODERATE"
    ELSE "FAST"

performance_level_of(response_time_ms) ==
    IF response_time_ms > 1000 THEN "SLOW"
    ELSE IF response_time_ms > 500 THEN "MODERATE"
    ELSE "FAST"

\* services_availability is available / total * 100, a float in the source;
\* total is 4, so the value is the integer 25 * available
analyze_performance(svc, docker, rt, script) ==
    LET detailed_report == get_detailed_report(svc, docker, rt, script)
        response_time_ms == Get(detailed_report, "response_time_ms", 0)
    IN  [ response_time_ms |-> response_time_ms,
          services_availability |->
              (detailed_report.services.available * 100)
                  \div detailed_report.services.total,
          containers_running |-> detailed_report.containers.running,
          performance_level |-> performance_level_of(response_time_ms) ]

----------------------------------------------------------------------------
(* smart_analyzer.py: LogAnalyzer *)

\* A log line is a sequence of words; a text is a sequence of lines (the
\* lines of "\n".join(entries)).  The empty line <<>> is a blank entry.
Lower(w) ==
    CASE w = "INFO" -> "info"
      [] w = "WARNING" -> "warning"
      [] w = "ERROR" -> "error"
      [] w = "Timeout" -> "timeout"
      [] OTHER -> w

\* 'MARKER' in l : case-sensitive substring test for a level marker
HasMarker(line, marker) == \E i \in 1..Len(line) : line[i] = marker

\* re.search(pattern, text, re.IGNORECASE) for a pattern a or a1.*a2 : '.'
\* does not match a newline, so a match lies within one line; a pattern is
\* the sequence of its literal parts
MatchesLine(pattern, line) ==
    IF Len(pattern) = 1
    THEN \E i \in 1..Len(line) : Lower(line[i]) = pattern[1]
    ELSE \E i \in 1..Len(line) : \E j \in (i + 1)..Len(line) :
            Lower(line[i]) = pattern[1] /\ Lower(line[j]) = pattern[2]

re_search(pattern, logs_text) ==
    \E n \in 1..Len(logs_text) : MatchesLine(pattern, logs_text[n])

\* self.patterns, in dict order
PatternTypes ==
    <<"database_errors", "performance_issues", "security_issues",
      "application_errors">>

patterns ==
    [ database_errors    |-> << <<"connection", "failed">>, <<"timeout">>,
                                <<"deadlock">> >>,
      performance_issues |-> << <<"high", "response">>, <<"slow">>,
                                <<"timeout">> >>,
      security_issues    |-> << <<"unauthorized">>, <<"forbidden">>,
                                <<"invalid", "token">> >>,
      application_errors |-> << <<"exception">>, <<"error">>, <<"failed">> >> ]

\* str.strip() on the joined text: blank lines at both ends go away
RECURSIVE StripLeft(_)
StripLeft(text) ==
    IF text # <<>> /\ Head(text) = <<>> THEN StripLeft(Tail(text)) ELSE text

RECURSIVE StripRight(_)
StripRight(text) ==
    IF text # <<>> /\ text[Len(text)] = <<>>
    THEN StripRight(SubSeq(text, 1, Len(text) - 1))
    ELSE text

Strip(text) == StripRight(StripLeft(text))

CountMarker(lines, marker) ==
    Cardinality({n \in 1..Len(lines) : HasMarker(lines[n], marker)})

\* the LogAnalyzer instance: its only attribute is the pattern table
LogAnalyzer == [patterns |-> patterns]

\* the pattern loop with the `break` left out
RECURSIVE detect_patterns_no_break(_, _, _)
detect_patterns_no_break(table, logs_text, k) ==
    IF k > Len(PatternTypes) THEN <<>>
    ELSE LET pattern_type == PatternTypes[k]
             hits == {p \in 1..Len(table[pattern_type]) :
                         re_search(table[pattern_type][p], logs_text)}
         IN  [i \in 1..Cardinality(hits) |-> pattern_type]
             \o detect_patterns_no_break(table, logs_text, k + 1)

\* the loop over self.patterns.items(): a type is appended once, at the
\* first of its patterns that matches
RECURSIVE detect_patterns(_, _, _)
detect_patterns(table, logs_text, k) ==
    IF k > Len(PatternTypes) THEN <<>>
    ELSE LET pattern_type == PatternTypes[k]
             hit == \E p \in 1..Len(table[pattern_type]) :
                        re_search(table[pattern_type][p], logs_text)
         IN  (IF hit THEN <<pattern_type>> ELSE <<>>)
             \o detect_patterns(table, logs_text, k + 1)

\* the WARNING test made before the ERROR test
alert_level_of_warning_first(levels) ==
    IF levels.WARNING > 0 THEN "WARNING"
    ELSE IF levels.ERROR > 0 THEN "ERROR"
    ELSE "INFO"

\* "Determine alert level"
alert_level_of(levels) ==
    IF levels.ERROR > 0 THEN "ERROR"
    ELSE IF levels.WARNING > 0 THEN "WARNING"
    ELSE "INFO"

\* analyze_with_patterns called on the instance self_ when the clock reads
\* `now`: the dict it returns
analyze_with_patterns_at(self_, now, logs_text) ==
    IF Strip(logs_text) = <<>>
    THEN [ timestamp |-> now,
           total_entries |-> 0,
           levels |-> [INFO |-> 0, WARNING |-> 0, ERROR |-> 0],
           detected_patterns |-> <<>>,
           alert_level |-> "INFO",
           summary |-> "No logs available for analysis" ]
    ELSE LET lines == Strip(logs_text)
             levels == [ INFO |-> CountMarker(lines, "INFO"),
                         WARNING |-> CountMarker(lines, "WARNING"),
                         ERROR |-> CountMarker(lines, "ERROR") ]
         IN  [ timestamp |-> now,
               total_entries |-> Len(lines),
               levels |-> levels,
               detected_patterns |-> detect_patterns(self_.patterns, logs_text, 1),
               alert_level |-> alert_level_of(levels),
               summary |-> IF levels.ERROR > 0 THEN "Critical errors detected"
                           ELSE IF levels.WARNING > 0 THEN "Warnings present"
                           ELSE "All systems operating normally" ]

\* a call that empties the pattern group it has just reported
log_analyzer_consumed(self_, logs_text) ==
    [patterns |->
        [t \in DOMAIN self_.patterns |->
            IF t \in SeqToSet(detect_patterns(self_.patterns, logs_text, 1))
            THEN <<>> ELSE self_.patterns[t]]]

\* the instance after a call of analyze_with_patterns: the method assigns
\* no attribute and changes no element of self.patterns
log_analyzer_after(self_, logs_text) == self_

\* the dict as the report pipeline uses it: no code path reads the timestamp
analyze_with_patterns(logs_text) ==
    LET results == analyze_with_patterns_at(LogAnalyzer, 0, logs_text)
    IN  [k \in DOMAIN results \ {"timestamp"} |-> results[k]]

\* A log query's answer.  kind "neterr": timeout, connection error or HTTP
\* error status; "badjson": the body is no JSON; "badtop": JSON, but not a
\* dict holding data.result as a list; "errorkey": a dict with an 'error'
\* key; "ok": a dict whose data.result is the list `streams`, each stream
\* either well-formed ([bad |-> FALSE, values |-> entries]) or not
\* ([bad |-> TRUE, ...]: no dict, or a value without a text)
get_loki_logs(primary) ==
    CASE primary.kind = "neterr"   -> [error |-> "Network error"]
      [] primary.kind = "badjson"  -> [error |-> "JSON parsing error"]
      [] primary.kind = "badtop"   -> [error |-> "Unexpected error"]
      [] primary.kind = "errorkey" -> [error |-> "payload"]
      [] OTHER -> [data |-> [result |-> primary.streams]]

\* the nested loops `for result ...: for value ...: append(value[1])`
\* from stream k on: the entries appended, and whether a stream raised
RECURSIVE collect_entries(_, _, _)
collect_entries(streams, k, log_entries) ==
    IF k > Len(streams) THEN [entries |-> log_entries, raised |-> FALSE]
    ELSE IF streams[k].bad THEN [entries |-> log_entries, raised |-> TRUE]
    ELSE collect_entries(streams, k + 1, log_entries \o streams[k].values)

----------------------------------------------------------------------------
(* master_analyzer.py: analyze_logs_patterns *)

alternative_queries ==
    <<"job=containers", "container=devops_app", "app=devops", "service!=",
      "job=~.+">>

\* the loop body without its `if log_entries: break`
alternative_step_no_break(response, log_entries) ==
    IF response.kind \in {"neterr", "badjson", "badtop"}
    THEN [entries |-> log_entries, stop |-> TRUE]
    ELSE IF response.kind = "non200"
    THEN [entries |-> log_entries, stop |-> FALSE]
    ELSE LET got == collect_entries(response.streams, 1, log_entries)
         IN  [entries |-> got.entries, stop |-> got.raised]

\* one iteration of the loop over alternative_queries, which runs inside
\* its own try / bare except.  response is the answer to the query: kind
\* "neterr" (requests.get raises), "non200", "badjson" / "badtop"
\* (response.json() or a .get on the payload raises) or "ok" with streams.
\* An exception ends the loop (`except: pass`) and keeps what was appended
\* before it; so does the break once log_entries is not empty.
alternative_step(response, log_entries) ==
    IF response.kind \in {"neterr", "badjson", "badtop"}
    THEN [entries |-> log_entries, stop |-> TRUE]
    ELSE IF response.kind = "non200"
    THEN [entries |-> log_entries, stop |-> FALSE]
    ELSE LET got == collect_entries(response.streams, 1, log_entries)
         IN  [ entries |-> got.entries,
               stop |-> got.raised \/ got.entries # <<>> ]

\* the loop from query q on; alts[q] is the answer to query q
RECURSIVE try_alternatives(_, _, _)
try_alternatives(alts, q, log_entries) ==
    IF q > Len(alternative_queries)
    THEN [entries |-> log_entries, issued |-> q - 1]
    ELSE LET step == alternative_step(alts[q], log_entries)
         IN  IF step.stop
             THEN [entries |-> step.entries, issued |-> q]
             ELSE try_alternatives(alts, q + 1, step.entries)

LogWindow == 50

\* import_ok: `from smart_analyzer import LogAnalyzer` succeeds
analyze_logs_patterns(import_ok, primary, alts) ==
    LET failed == [ error |-> "Log analysis failed",
                    alert_level |-> "ERROR",
                    entries_analyzed |-> 0 ]
    IN
    IF ~import_ok THEN failed
    ELSE
    LET loki == get_loki_logs(primary)
    IN  IF "error" \notin DOMAIN loki
        THEN LET first == collect_entries(loki.data.result, 1, <<>>)
             IN  IF first.raised THEN failed
                 ELSE
                 LET log_entries ==
                         IF first.entries = <<>>
                         THEN try_alternatives(alts, 1, <<>>).entries
                         ELSE first.entries
                     logs_text ==
                         SubSeq(log_entries, 1,
                                IF Len(log_entries) < LogWindow
                                THEN Len(log_entries) ELSE LogWindow)
                     analysis == analyze_with_patterns(logs_text)
                 IN  [ log_analysis |-> analysis,
                       entries_analyzed |-> Len(log_entries),
                       alert_level |-> Get(analysis, "alert_level", "INFO"),
                       detected_patterns |->
                           Get(analysis, "detected_patterns", <<>>),
                       query_used |-> IF log_entries # <<>>
                                      THEN "alternative" ELSE "original" ]
        ELSE [ error |-> loki.error,
               alert_level |-> "UNKNOWN",
               entries_analyzed |-> 0 ]

----------------------------------------------------------------------------
(* network_analyzer.py *)

\* self.target_services, split as the two loops split it
HttpTargets == {"localhost:5000", "localhost:9090", "localhost:3100",
                "localhost:3000"}

PingTargets == {"8.8.8.8", "1.1.1.1"}

dns_hosts == {"google.com", "github.com", "docker.com"}

\* what `ping -c 3 -W 2 host` (timeout 10) can come back with: "ok" is exit
\* status 0 with times in the output, "notimes" exit status 0 without any,
\* "fail" a non-zero exit status, "timeout" and "oserror" the exceptions
PingOutcomes == {"ok", "notimes", "fail", "timeout", "oserror"}

ping_service(target, outcome) ==
    IF outcome = "ok"
    THEN [target |-> target, available |-> TRUE, packet_loss |-> 0]
    ELSE [target |-> target, available |-> FALSE, packet_loss |-> 100]

\* http_response_time that counts only a 200 as available
http_response_time_status_checked(url, outcome) ==
    [url |-> url, available |-> outcome = "200"]

\* any response at all counts as available, whatever its status code
http_response_time(url, outcome) ==
    IF outcome \in {"200", "non200"}
    THEN [url |-> url, available |-> TRUE]
    ELSE [url |-> url, available |-> FALSE]

DnsOutcomes == {"ok", "fail"}

check_dns_resolution(hostname, outcome) ==
    [hostname |-> hostname, resolved |-> outcome = "ok"]

\* target.startswith('http'): the names of the HTTP targets are written
\* here without their scheme
StartsWithHttp(target) == target \in HttpTargets

\* self.target_services as __init__ sets it
target_services == HttpTargets \cup PingTargets

\* analyze_network_health on an instance whose target list is
\* target_services_.  The three result lists are functions of the target
\* (each target is probed once, in list order); the latency means are left
\* out.  The percentages are floats in the source and rounded down here.
\* Each of ping_availability and http_availability divides by the number of
\* targets of its kind: with none, ZeroDivisionError leaves the method.
analyze_network_health_of(target_services_, ping, http, dns) ==
    LET ping_targets == {t \in target_services_ : ~StartsWithHttp(t)}
        http_targets == {t \in target_services_ : StartsWithHttp(t)}
        ping_results == [t \in ping_targets |-> ping_service(t, ping[t])]
        http_results == [t \in http_targets |-> http_response_time(t, http[t])]
        dns_results == [h \in dns_hosts |-> check_dns_resolution(h, dns[h])]
        available_pings ==
            Cardinality({t \in ping_targets : ping_results[t].available})
        available_http ==
            Cardinality({t \in http_targets : http_results[t].available})
        resolved_dns == Cardinality({h \in dns_hosts : dns_results[h].resolved})
    IN  IF ping_targets = {} \/ http_targets = {}
        THEN Raise("ZeroDivisionError")
        ELSE
        [ ping_results |-> ping_results,
          http_results |-> http_results,
          dns_results |-> dns_results,
          summary |->
            [ ping_availability |->
                  (available_pings * 100) \div Cardinality(ping_targets),
              http_availability |->
                  (available_http * 100) \div Cardinality(http_targets),
              dns_availability |->
                  (resolved_dns * 100) \div Cardinality(dns_hosts),
              total_checks |-> Cardinality(target_services_)
                               + Cardinality(dns_hosts) ] ]

\* analyze_network_health on a fresh NetworkAnalyzer()
analyze_network_health(ping, http, dns) ==
    analyze_network_health_of(target_services, ping, http, dns)

\* analyze_network without its try / except
analyze_network_unguarded(import_ok, ping, http, dns) ==
    IF import_ok THEN analyze_network_health(ping, http, dns)
    ELSE Raise("ImportError")

\* MasterAnalyzer.analyze_network: the import and the analysis inside
\* try / except Exception.  import_ok: `from network_analyzer import
\* NetworkAnalyzer` succeeds
analyze_network(import_ok, ping, http, dns) ==
    LET tried == IF import_ok THEN analyze_network_health(ping, http, dns)
                 ELSE Raise("ImportError")
    IN  IF IsRaise(tried)
        THEN [ error |-> "Network analysis failed",
               summary |-> [network_availability |-> 0] ]
        ELSE tried

----------------------------------------------------------------------------
(* insight_generator.py: check_ollama_ready *)

\* What GET /api/tags (timeout 10) can come back with.  "ok": 200 and a dict
\* whose 'models' is the list `models` (each entry a dict, with or without
\* a 'name'); "nodict": 200 and JSON that is no dict; "badjson": 200 and no
\* JSON; "non200", "connerr", "timeout".
TagsKinds == {"ok", "nodict", "badjson", "non200", "connerr", "timeout"}

\* status['available'] is set before data.get and before the print that
\* reads m['name'], so an exception raised by either leaves it True
check_ollama_ready(tags) ==
    CASE tags.kind = "ok"     -> [available |-> TRUE, models |-> tags.models]
      [] tags.kind = "nodict" -> [available |-> TRUE, models |-> <<>>]
      [] OTHER                -> [available |-> FALSE, models |-> <<>>]

----------------------------------------------------------------------------
(* insight_generator.py: analyze_trends, generate_detailed_health_report *)

\* A metric series is a sequence of non-negative integers.  Request, error
\* and CPU samples are in hundredths (a request rate of 13 is 0.13 per
\* second), memory samples are in MiB.  Comparisons of floats are made on
\* the exact values; numbers the source rounds to one or two decimals are
\* in tenths (avg_rpm, peak_rpm, avg_memory_mb, max_memory_mb,
\* avg_cpu_percent) or hundredths (error_rate, uptime_percentage), rounded
\* down.
RECURSIVE SumSeq(_)
SumSeq(xs) == IF xs = <<>> THEN 0 ELSE Head(xs) + SumSeq(Tail(xs))

\* max(xs) of a non-empty list
RECURSIVE MaxSeq(_)
MaxSeq(xs) ==
    IF Len(xs) = 1 THEN xs[1]
    ELSE LET m == MaxSeq(Tail(xs)) IN IF Head(xs) > m THEN Head(xs) ELSE m

\* requests[-3:] of a list of at least 3 samples
LastThree(xs) == SubSeq(xs, Len(xs) - 2, Len(xs))

\* the load trend with both thresholds included
load_trend_inclusive(requests) ==
    IF Len(requests) >= 3
    THEN IF 10 * Len(requests) * SumSeq(LastThree(requests))
                >= 39 * SumSeq(requests)
         THEN << "Growing load: +30% above average" >>
         ELSE IF 10 * Len(requests) * SumSeq(LastThree(requests))
                    <= 21 * SumSeq(requests)
         THEN << "Load decrease: -30% below average" >>
         ELSE <<>>
    ELSE <<>>

\* recent_avg > overall_avg * 1.3 is sum3 / 3 > 13/10 * sum / n, that is
\* 10 * n * sum3 > 39 * sum; recent_avg < overall_avg * 0.7 is
\* 10 * n * sum3 < 21 * sum
load_trend(requests) ==
    IF Len(requests) >= 3
    THEN IF 10 * Len(requests) * SumSeq(LastThree(requests))
                > 39 * SumSeq(requests)
         THEN << "Growing load: +30% above average" >>
         ELSE IF 10 * Len(requests) * SumSeq(LastThree(requests))
                    < 21 * SumSeq(requests)
         THEN << "Load decrease: -30% below average" >>
         ELSE <<>>
    ELSE <<>>

analyze_trends(metrics) ==
    LET requests == Get(metrics, "app_requests", <<>>)
        errors == Get(metrics, "app_errors", <<>>)
        memory == Get(metrics, "app_memory", <<>>)
    IN  load_trend(requests)
        \o (IF (\E i \in 1..Len(errors) : errors[i] # 0) /\ MaxSeq(errors) > 10
            THEN << "Instability: high error rate" >> ELSE <<>>)
        \o (IF memory # <<>> /\ MaxSeq(memory) > 512
            THEN << "High memory usage" >> ELSE <<>>)

\* statistics.mean called without the `if requests` guard: it raises
\* StatisticsError on an empty list
avg_rpm_of_unguarded(requests) ==
    IF requests = <<>> THEN Raise("StatisticsError")
    ELSE [value |-> (6 * SumSeq(requests)) \div Len(requests)]

\* statistics.mean(requests) * 60 if requests else 0, in tenths: the value
\* of the expression, or the exception it raises
avg_rpm_of(requests) ==
    IF requests # <<>>
    THEN [value |-> (6 * SumSeq(requests)) \div Len(requests)]
    ELSE [value |-> 0]

generate_detailed_health_report(metrics) ==
    LET requests == Get(metrics, "app_requests", <<>>)
        errors == Get(metrics, "app_errors", <<>>)
        memory == Get(metrics, "app_memory", <<>>)
        cpu == Get(metrics, "app_cpu", <<>>)
        total_requests == IF requests # <<>> THEN 36 * SumSeq(requests) ELSE 0
        total_errors == IF errors # <<>> THEN 36 * SumSeq(errors) ELSE 0
        \* error_rate in hundredths of a percent
        error_rate == IF total_requests # 0
                      THEN (10000 * total_errors) \div total_requests ELSE 0
        \* error_rate > 10, > 5, < 1, < 5 on the exact quotient
        over(pct) == total_requests # 0
                     /\ 100 * total_errors > pct * total_requests
        under(pct) == total_requests = 0
                      \/ 100 * total_errors < pct * total_requests
        avg_rpm == avg_rpm_of(requests)
    IN  IF IsRaise(avg_rpm) THEN avg_rpm
        ELSE
        [ status |-> IF over(10) THEN "CRITICAL"
                     ELSE IF over(5) THEN "WARNING" ELSE "NORMAL",
          uptime_percentage |->
              10000 - (IF error_rate < 10000 THEN error_rate ELSE 10000),
          total_requests |-> total_requests,
          total_errors |-> total_errors,
          error_rate |-> error_rate,
          avg_rpm |-> avg_rpm.value,
          peak_rpm |-> IF requests # <<>> THEN 6 * MaxSeq(requests) ELSE 0,
          avg_memory_mb |-> IF memory # <<>>
                            THEN (10 * SumSeq(memory)) \div Len(memory) ELSE 0,
          max_memory_mb |-> IF memory # <<>> THEN 10 * MaxSeq(memory) ELSE 0,
          avg_cpu_percent |-> IF cpu # <<>>
                              THEN (10 * SumSeq(cpu)) \div Len(cpu) ELSE 0,
          availability |-> IF under(1) THEN "HIGH"
                           ELSE IF under(5) THEN "MEDIUM" ELSE "LOW" ]

----------------------------------------------------------------------------
(* master_analyzer.py: generate_ai_insights, _get_static_insights *)

\* Whether the name `requests` is bound in module master_analyzer: the
\* module imports sys, os, datetime, typing, json, timedelta and bridge;
\* the `import requests` of analyze_logs_patterns is local to that function.
RequestsBound == FALSE

\* 'insights' is the list joined with " • "; it is kept as the list, so the
\* string is empty exactly when the list is
_get_static_insights(health_data_, performance_data_, logs_data_) ==
    LET h == IF health_data_.health_level = "EXCELLENT"
             THEN << "System in excellent condition: all services available, containers running",
                     "Consider configuring auto-scaling to maintain performance" >>
             ELSE IF health_data_.health_level = "GOOD"
             THEN << "System stable, but recommend checking logs for hidden issues",
                     "Consider optimizing resource consumption" >>
             ELSE << "Immediate attention required! Critical system issues",
                     "Check Docker containers and service configurations" >>
        p == IF performance_data_.performance_level = "FAST"
             THEN << "Performance optimal, response time normal" >>
             ELSE IF performance_data_.performance_level = "SLOW"
             THEN << "Performance degraded, recommend code and configuration optimization",
                     "Check memory and CPU usage" >>
             ELSE <<>>
        entries_analyzed == Get(logs_data_, "entries_analyzed", 0)
        l == IF entries_analyzed > 10
             THEN << "System generating stable log stream" >>
             ELSE IF entries_analyzed > 0
             THEN << "Low log activity, system running stable" >>
             ELSE << "Configure log collection for complete monitoring" >>
        found == SeqToSet(Get(logs_data_, "detected_patterns", <<>>))
        d == (IF "application_errors" \in found
              THEN << "Application errors detected - check code and dependencies" >>
              ELSE <<>>)
             \o (IF "performance_issues" \in found
                 THEN << "Performance issues identified - optimize queries" >>
                 ELSE <<>>)
             \o (IF "security_issues" \in found
                 THEN << "Security issues detected - check authentication" >>
                 ELSE <<>>)
    IN  [ ai_available |-> FALSE,
          static_insights |-> TRUE,
          insights |-> h \o p \o l \o d,
          note |-> "AI unavailable, used intelligent static recommendations" ]

\* every failure answered with the dict of the AI-off case
generate_ai_insights_bare(use_ai_, import_ok, tags, generate, health_data_, performance_data_, logs_data_) ==
    [result |-> [ai_available |-> FALSE], posts |-> 0]

\* What POST /api/generate (timeout 8) can come back with
GenerateKinds == {"200", "non200", "timeout", "connerr"}

\* The result dict and the number of generation requests sent.
\* import_ok: `from insight_generator import InsightGenerator` succeeds.
\* With `requests` unbound, evaluating requests.post raises NameError inside
\* the inner try; matching it against `except (requests.exceptions.Timeout,
\* ...)` raises NameError again, which the outer `except Exception` catches.
generate_ai_insights(use_ai_, import_ok, tags, generate, health_data_, performance_data_, logs_data_) ==
    LET static == [ result |-> _get_static_insights(health_data_,
                                   performance_data_, logs_data_),
                    posts |-> 0 ]
        ollama_status == check_ollama_ready(tags)
    IN
    IF ~use_ai_ THEN [result |-> [ai_available |-> FALSE], posts |-> 0]
    ELSE IF ~import_ok THEN static
    ELSE IF ~ollama_status.available THEN static
    ELSE IF ollama_status.models # <<>>
            /\ "name" \notin DOMAIN ollama_status.models[1] THEN static
    ELSE IF ~RequestsBound THEN static
    ELSE LET model_name == IF ollama_status.models # <<>>
                           THEN ollama_status.models[1].name
                           ELSE "tinyllama:latest"
         IN  IF generate = "200"
             THEN [ result |-> [ ai_available |-> TRUE,
                                 insights |-> <<"generated text">>,
                                 model_used |-> model_name,
                                 response_time |-> "fast" ],
                    posts |-> 1 ]
             ELSE [static EXCEPT !.posts = 1]

----------------------------------------------------------------------------
(* master_analyzer.py: the aggregator *)

_get_network_status(network_data_) ==
    IF "error" \in DOMAIN network_data_ THEN "UNKNOWN"
    ELSE LET availability == network_data_.summary.http_availability
         IN  IF availability >= 95 THEN "EXCELLENT"
             ELSE IF availability >= 80 THEN "GOOD"
             ELSE IF availability >= 60 THEN "WARNING"
             ELSE "CRITICAL"

status_weights ==
    [ CRITICAL |-> 4, ERROR |-> 3, WARNING |-> 2, GOOD |-> 1, EXCELLENT |-> 0,
      UNKNOWN |-> 1 ]

\* the sum as it was before the network status was added to it
total_weight_of_without_network(health_level, performance_level, alert_level, network_status) ==
    Get(status_weights, health_level, 2)
    + (IF performance_level = "SLOW" THEN 2 ELSE 0)
    + Get(status_weights, alert_level, 1)

total_weight_of(health_level, performance_level, alert_level, network_status) ==
    Get(status_weights, health_level, 2)
    + (IF performance_level = "SLOW" THEN 2 ELSE 0)
    + Get(status_weights, alert_level, 1)
    + Get(status_weights, network_status, 1)

\* the CRITICAL threshold taken as > 6
classify_weight_above(total_weight) ==
    IF total_weight > 6 THEN "CRITICAL"
    ELSE IF total_weight >= 4 THEN "WARNING"
    ELSE "NORMAL"

classify_weight(total_weight) ==
    IF total_weight >= 6 THEN "CRITICAL"
    ELSE IF total_weight >= 4 THEN "WARNING"
    ELSE "NORMAL"

_calculate_overall_status(health, performance, logs, network) ==
    classify_weight(
        total_weight_of(health.health_level, performance.performance_level,
                        Get(logs, "alert_level", "INFO"),
                        _get_network_status(network)))

\* the pattern block placed before the logs block
generate_recommendations_swapped(health, performance, logs) ==
    LET found == SeqToSet(Get(logs, "detected_patterns", <<>>))
        entries_analyzed == Get(logs, "entries_analyzed", 0)
    IN  (IF health.health_score = 100
         THEN << "Maintain current configuration - system perfect" >>
         ELSE <<>>)
        \o (IF "database_errors" \in found
            THEN << "Check database connections" >> ELSE <<>>)
        \o (IF entries_analyzed > 0
            THEN << "Logs clean - excellent system operation" >>
            ELSE << "Configure Loki for application log collection" >>)

\* the all-clear entry without the entries_analyzed > 0 test
rec_all_clear_silent(health, performance, logs) ==
    IF /\ health.health_score = 100
       /\ performance.performance_level = "FAST"
       /\ ("alert_level" \notin DOMAIN logs \/ logs.alert_level = "INFO")
    THEN << "System operating perfectly! Recommend documenting configuration" >>
    ELSE <<>>

\* _generate_recommendations, block by block
rec_health(health) ==
    IF health.health_score = 100
    THEN << "Maintain current configuration - system perfect" >>
    ELSE IF health.health_score >= 90
    THEN << "Consider business metrics monitoring for proactive management" >>
    ELSE IF health.health_score >= 70
    THEN << "Conduct preventive system inspection" >>
    ELSE <<>>

rec_performance(performance) ==
    IF performance.performance_level = "FAST"
    THEN << "Performance optimal - maintain current settings" >>
    ELSE IF performance.performance_level = "SLOW"
    THEN << "Optimize database settings and caching" >>
    ELSE <<>>

rec_logs(logs) ==
    LET entries_analyzed == Get(logs, "entries_analyzed", 0)
        log_level == Get(logs, "alert_level", "INFO")
    IN  IF entries_analyzed > 0
        THEN (IF log_level = "ERROR"
              THEN << "Urgently investigate errors in logs" >>
              ELSE IF log_level = "WARNING"
              THEN << "Attention: warnings present in logs" >>
              ELSE << "Logs clean - excellent system operation" >>)
             \o (IF entries_analyzed > 50
                 THEN << "Consider log rotation to save space" >>
                 ELSE <<>>)
        ELSE << "Configure Loki for application log collection" >>

rec_patterns(logs) ==
    LET found == SeqToSet(Get(logs, "detected_patterns", <<>>))
    IN  (IF "database_errors" \in found
         THEN << "Check database connections" >> ELSE <<>>)
        \o (IF "performance_issues" \in found
            THEN << "Analyze slow queries" >> ELSE <<>>)

\* logs.get('alert_level') in ['INFO', None]
rec_all_clear(health, performance, logs) ==
    IF /\ health.health_score = 100
       /\ performance.performance_level = "FAST"
       /\ ("alert_level" \notin DOMAIN logs \/ logs.alert_level = "INFO")
       /\ Get(logs, "entries_analyzed", 0) > 0
    THEN << "System operating perfectly! Recommend documenting configuration" >>
    ELSE <<>>

_generate_recommendations(health, performance, logs) ==
    rec_health(health) \o rec_performance(performance) \o rec_logs(logs)
    \o rec_patterns(logs) \o rec_all_clear(health, performance, logs)

\* a report whose recommendations take over the insight block's lines
build_master_report_insight_scored(health, performance, logs, network, insights) ==
    [ summary |-> [ health |-> health.health_level,
                    performance |-> performance.performance_level,
                    logs_alert |-> Get(logs, "alert_level", "UNKNOWN"),
                    network |-> _get_network_status(network),
                    overall_status |->
                        _calculate_overall_status(health, performance, logs,
                                                  network) ],
      details |-> [ health_analysis |-> health,
                    performance_analysis |-> performance,
                    logs_analysis |-> logs,
                    network_analysis |-> network,
                    ai_insights |-> insights ],
      recommendations |->
          _generate_recommendations(health, performance, logs)
          \o Get(insights, "insights", <<>>) ]

\* the dict built at the end of generate_master_report
build_master_report(health, performance, logs, network, insights) ==
    [ summary |-> [ health |-> health.health_level,
                    performance |-> performance.performance_level,
                    logs_alert |-> Get(logs, "alert_level", "UNKNOWN"),
                    network |-> _get_network_status(network),
                    overall_status |->
                        _calculate_overall_status(health, performance, logs,
                                                  network) ],
      details |-> [ health_analysis |-> health,
                    performance_analysis |-> performance,
                    logs_analysis |-> logs,
                    network_analysis |-> network,
                    ai_insights |-> insights ],
      recommendations |-> _generate_recommendations(health, performance, logs) ]

\* the subscripts of generate_master_report and of the operators it calls
\* that raise KeyError when a key is missing
report_raises(health, performance, logs, network) ==
    \/ "health_level" \notin DOMAIN health
    \/ "health_score" \notin DOMAIN health
    \/ "performance_level" \notin DOMAIN performance
    \/ /\ "error" \notin DOMAIN network
       /\ \/ "summary" \notin DOMAIN network
          \/ "http_availability" \notin DOMAIN network.summary

----------------------------------------------------------------------------
(* The environment one run of main() meets *)

ServiceOrder == <<"app", "prometheus", "loki", "grafana">>

HttpTargetOrder ==
    <<"localhost:5000", "localhost:9090", "localhost:3100", "localhost:3000">>

PosIn(order, x) == CHOOSE i \in 1..Len(order) : order[i] = x

\* the answers of the four service checks when the first k services (in
\* the order they are checked) answer 200 and the others fail in way f
ServiceAnswers(k, f) ==
    [s \in ServiceNames |-> IF PosIn(ServiceOrder, s) <= k THEN "200" ELSE f]

\* the answers of the four HTTP targets when the first k respond
HttpAnswers(k, ok, f) ==
    [t \in HttpTargets |-> IF PosIn(HttpTargetOrder, t) <= k THEN ok ELSE f]

\* the host: what the container runtime and the metrics scripts answer and
\* how long a quick status takes (ms); it stays as it is during one run
DockerSamples ==
    { [kind |-> "ok", lines |-> n] :
          n \in {ExpectedContainers - 1, ExpectedContainers, MaxContainers} }
    \cup { [kind |-> "timeout"] }

RtSamples == {500, 1000, 1001}

Hosts ==
    { [ docker |-> d,
        script |-> IF d.kind = "ok" THEN "ok" ELSE "missing",
        rt |-> rt ] : d \in DockerSamples, rt \in RtSamples }

\* by how many services the reachable set may differ between the quick
\* status of the health analysis and that of the performance analysis
ServiceDrift == {-1, 0}

\* sample log lines
LineInfo == <<"INFO", "ok">>

LineWarn == <<"WARNING", "slow">>

LineError == <<"ERROR", "connection", "failed">>

LineTimeout == <<"timeout">>

LineUnauthorized == <<"unauthorized">>

Repeat(line, n) == [i \in 1..n |-> line]

Stream(entries) == [bad |-> FALSE, values |-> entries]

BadStream == [bad |-> TRUE, values |-> <<>>]

EntrySamples ==
    { Repeat(LineInfo, n) : n \in {1, 11, MaxEntries} }
    \cup { Repeat(LineError, n) : n \in {1, MaxEntries} }
    \cup { <<LineWarn>>, <<LineTimeout, LineUnauthorized>> }

\* answers of the primary log query
PrimaryAnswers ==
    [kind : {"neterr", "badtop"}]
    \cup { [kind |-> "ok", streams |-> <<>>],
           [kind |-> "ok", streams |-> <<BadStream>>] }
    \cup { [kind |-> "ok", streams |-> <<Stream(e)>>] : e \in EntrySamples }

\* the alternative queries are sent only when the primary query answered
\* without entries
PrimaryIsEmpty(primary) ==
    /\ primary.kind = "ok"
    /\ ~collect_entries(primary.streams, 1, <<>>).raised
    /\ collect_entries(primary.streams, 1, <<>>).entries = <<>>

\* answers of the five alternative queries: the first j - 1 miss, the
\* others answer `hit`
AltMisses == { [kind |-> "non200"], [kind |-> "ok", streams |-> <<>>] }

AltHits ==
    [kind : {"neterr", "badjson"}]
    \cup { [kind |-> "ok", streams |-> <<Stream(e)>>] :
               e \in {<<LineInfo>>, <<LineError>>} }
    \cup { [kind |-> "ok", streams |-> <<Stream(<<LineWarn>>), BadStream>>] }

NoAlts == [q \in 1..Len(alternative_queries) |-> [kind |-> "non200"]]

AltAnswers ==
    { [q \in 1..Len(alternative_queries) |-> IF q < j THEN miss ELSE hit] :
          j \in {1, 3, Len(alternative_queries) + 1},
          miss \in AltMisses, hit \in AltHits }

\* answers of the network targets
\* answers of the network targets: the first k HTTP targets respond; the
\* ping hosts and the DNS names answer unless no HTTP target does
NetworkAnswers ==
    { [ import_ok |-> i,
        ping |-> [t \in PingTargets |-> IF k = 0 THEN pf ELSE "ok"],
        http |-> HttpAnswers(k, ok, f),
        dns  |-> [h \in dns_hosts |-> IF k = 0 THEN "fail" ELSE "ok"] ] :
          i \in BOOLEAN, k \in 0..Cardinality(HttpTargets),
          ok \in {"200", "non200"}, f \in {"timeout", "connerr"},
          pf \in {"fail", "timeout"} }

\* answers of the text-generation backend's readiness check
TagsAnswers ==
    { [kind |-> "ok", models |-> m] :
          m \in { <<>>, <<[name |-> "tinyllama:latest"]>> } }
    \cup [kind : TagsKinds \ {"ok"}]

----------------------------------------------------------------------------
(* main() and generate_master_report, one action per call *)

Init ==
    /\ pc = "start"
    /\ env \in Hosts
    /\ use_ai = FALSE
    /\ health_data = Unset
    /\ performance_data = Unset
    /\ logs_data = Unset
    /\ network_data = Unset
    /\ backend = [ startup |-> "unchecked", reach |-> "unasked",
                   generate |-> "none", posts |-> 0 ]
    /\ ai_insights = Unset
    /\ master_report = Unset
    /\ sink = [printed |-> FALSE, saved |-> FALSE]

\* main: the readiness check that decides use_ai.  backend.startup keeps
\* what the check met: "ready", "unavailable" (no usable answer) or "unusable"
\* (no model listed, or insight_generator cannot be imported); backend.reach
\* keeps the same for the check inside generate_ai_insights, backend.generate
\* how the backend answers a generation request and backend.posts how many
\* were sent
CheckAI ==
    /\ pc = "start"
    /\ \E import_ok \in BOOLEAN, tags \in TagsAnswers :
          LET ai_status == check_ollama_ready(tags)
          IN  /\ use_ai' = IF import_ok
                           THEN ai_status.available /\ ai_status.models # <<>>
                           ELSE FALSE
              /\ backend' =
                     [backend EXCEPT !.startup =
                         IF ~import_ok THEN "unusable"
                         ELSE IF ~ai_status.available THEN "unavailable"
                         ELSE IF ai_status.models = <<>> THEN "unusable"
                         ELSE "ready"]
    /\ pc' = "health"
    /\ UNCHANGED <<env, health_data, performance_data, logs_data, network_data,
                   ai_insights, master_report, sink>>

AnalyzeSystemHealth ==
    /\ pc = "health"
    /\ \E k \in 0..TotalServices, f \in HttpOutcomes \ {"200"} :
          health_data' = analyze_system_health(ServiceAnswers(k, f), env.docker,
                                               env.rt, env.script)
    /\ pc' = "performance"
    /\ UNCHANGED <<env, use_ai, performance_data, logs_data, network_data,
                   backend, ai_insights, master_report, sink>>

AnalyzePerformance ==
    /\ pc = "performance"
    /\ \E drift \in ServiceDrift, f \in HttpOutcomes \ {"200"} :
          LET k == health_data.quick_status.services.available + drift
          IN  /\ k \in 0..TotalServices
              /\ performance_data' =
                     analyze_performance(ServiceAnswers(k, f), env.docker,
                                         env.rt, env.script)
    /\ pc' = "logs"
    /\ UNCHANGED <<env, use_ai, health_data, logs_data, network_data,
                   backend, ai_insights, master_report, sink>>

AnalyzeLogsPatterns ==
    /\ pc = "logs"
    /\ \E import_ok \in BOOLEAN, primary \in PrimaryAnswers :
       \E alts \in IF PrimaryIsEmpty(primary) THEN AltAnswers ELSE {NoAlts} :
          LET got == analyze_logs_patterns(import_ok, primary, alts)
          IN  IF IsRaise(got)
              THEN pc' = "raised" /\ logs_data' = logs_data
              ELSE pc' = "network" /\ logs_data' = got
    /\ UNCHANGED <<env, use_ai, health_data, performance_data, network_data,
                   backend, ai_insights, master_report, sink>>

AnalyzeNetwork ==
    /\ pc = "network"
    /\ \E n \in NetworkAnswers :
          LET got == analyze_network(n.import_ok, n.ping, n.http, n.dns)
          IN  IF IsRaise(got)
              THEN pc' = "raised" /\ network_data' = network_data
              ELSE pc' = "insights" /\ network_data' = got
    /\ UNCHANGED <<env, use_ai, health_data, performance_data, logs_data,
                   backend, ai_insights, master_report, sink>>

GenerateAIInsights ==
    /\ pc = "insights"
    /\ \E import_ok \in BOOLEAN, tags \in TagsAnswers :
       \E generate \in IF use_ai /\ import_ok /\ check_ollama_ready(tags).available
                        THEN GenerateKinds ELSE {"none"} :
          LET got == generate_ai_insights(use_ai, import_ok, tags, generate,
                                          health_data, performance_data,
                                          logs_data)
              asked == use_ai /\ import_ok
          IN  /\ ai_insights' = got.result
              /\ backend' =
                     [backend EXCEPT
                        !.reach = IF ~asked THEN "unasked"
                                  ELSE IF check_ollama_ready(tags).available
                                  THEN "ready" ELSE "unavailable",
                        !.generate = generate,
                        !.posts = got.posts]
    /\ pc' = "scoring"
    /\ UNCHANGED <<env, use_ai, health_data, performance_data, logs_data,
                   network_data, master_report, sink>>

\* the report dict: summary, overall status and recommendations
BuildReport ==
    /\ pc = "scoring"
    /\ IF report_raises(health_data, performance_data, logs_data, network_data)
       THEN pc' = "raised" /\ master_report' = master_report
       ELSE /\ pc' = "serializing"
            /\ master_report' =
                   build_master_report(health_data, performance_data, logs_data,
                                       network_data, ai_insights)
    /\ UNCHANGED <<env, use_ai, health_data, performance_data, logs_data,
                   network_data, backend, ai_insights, sink>>

\* main: print_report, then save_report
Serialize ==
    /\ pc = "serializing"
    /\ sink' = [printed |-> TRUE, saved |-> TRUE]
    /\ pc' = "done"
    /\ UNCHANGED <<env, use_ai, health_data, performance_data, logs_data,
                   network_data, backend, ai_insights, master_report>>

Next ==
    \/ CheckAI
    \/ AnalyzeSystemHealth
    \/ AnalyzePerformance
    \/ AnalyzeLogsPatterns
    \/ AnalyzeNetwork
    \/ GenerateAIInsights
    \/ BuildReport
    \/ Serialize

Spec == Init /\ [][Next]_vars

----------------------------------------------------------------------------
(* The bridge analyses called on their own, with any answers of the four   *)
(* services, the container runtime and the metrics scripts                 *)

\* response times (ms) on both sides of the two thresholds
BridgeRtSamples == {0, 499, 500, 501, 999, 1000, 1001}

BridgeHosts ==
    { [ svc |-> svc, docker |-> d, rt |-> rt,
        script |-> IF d.kind = "ok" THEN "ok" ELSE "timeout" ] :
          svc \in [ServiceNames -> HttpOutcomes], d \in DockerOutcomes,
          rt \in BridgeRtSamples }

BridgeInit ==
    /\ pc = "bridge"
    /\ env \in BridgeHosts
    /\ use_ai = FALSE
    /\ health_data = Unset
    /\ performance_data = Unset
    /\ logs_data = Unset
    /\ network_data = Unset
    /\ backend = [ startup |-> "unchecked", reach |-> "unasked",
                   generate |-> "none", posts |-> 0 ]
    /\ ai_insights = Unset
    /\ master_report = Unset
    /\ sink = [printed |-> FALSE, saved |-> FALSE]

CallAnalyzeSystemHealth ==
    /\ pc = "bridge"
    /\ health_data' = analyze_system_health(env.svc, env.docker, env.rt,
                                            env.script)
    /\ pc' = "bridge_performance"
    /\ UNCHANGED <<env, use_ai, performance_data, logs_data, network_data,
                   backend, ai_insights, master_report, sink>>

CallAnalyzePerformance ==
    /\ pc = "bridge_performance"
    /\ performance_data' = analyze_performance(env.svc, env.docker, env.rt,
                                               env.script)
    /\ pc' = "bridge_done"
    /\ UNCHANGED <<env, use_ai, health_data, logs_data, network_data,
                   backend, ai_insights, master_report, sink>>

BridgeNext ==
    \/ CallAnalyzeSystemHealth
    \/ CallAnalyzePerformance

SpecBridge == BridgeInit /\ [][BridgeNext]_vars

----------------------------------------------------------------------------
(* LogAnalyzer.analyze_with_patterns called on its own, several times on   *)
(* the same text                                                           *)

\* sample lines: every pattern of the table, the level markers, a word in
\* mixed case, the parts of a two-part pattern alone and in reverse order
TextLines ==
    { <<>>, LineInfo, LineWarn, LineError, LineTimeout, LineUnauthorized,
      <<"Timeout">>, <<"error">>, <<"failed", "connection">>, <<"connection">>,
      <<"failed">>, <<"WARNING", "ERROR">>, <<"high", "response">>,
      <<"invalid", "token">>, <<"deadlock">>, <<"forbidden">> }

Texts == UNION { [1..n -> TextLines] : n \in 0..MaxLines }

\* by how much the clock may advance between two reads of datetime.now()
ClockTicks == {0, 1}

TextInit ==
    /\ pc = "text"
    /\ env \in { [self |-> LogAnalyzer, now |-> 0, text |-> t] : t \in Texts }
    /\ use_ai = FALSE
    /\ health_data = Unset
    /\ performance_data = Unset
    /\ logs_data = Unset
    /\ network_data = Unset
    /\ backend = [ startup |-> "unchecked", reach |-> "unasked",
                   generate |-> "none", posts |-> 0 ]
    /\ ai_insights = Unset
    /\ master_report = Unset
    /\ sink = [printed |-> FALSE, saved |-> FALSE]

\* one call; logs_data.results keeps the dicts returned so far
CallAnalyzeWithPatterns ==
    /\ pc = "text"
    /\ \E tick \in ClockTicks :
          LET results == analyze_with_patterns_at(env.self, env.now, env.text)
              earlier == IF IsSet(logs_data) THEN logs_data.results ELSE <<>>
          IN  /\ logs_data' = [results |-> Append(earlier, results)]
              /\ env' = [env EXCEPT
                            !.self = log_analyzer_after(env.self, env.text),
                            !.now = env.now + tick]
              /\ pc' = IF Len(earlier) + 1 >= MaxCalls THEN "text_done"
                       ELSE "text"
    /\ UNCHANGED <<use_ai, health_data, performance_data, network_data,
                   backend, ai_insights, master_report, sink>>

TextNext == CallAnalyzeWithPatterns

SpecLogText == TextInit /\ [][TextNext]_vars

----------------------------------------------------------------------------
(* InsightGenerator.generate_detailed_health_report and analyze_trends     *)
(* called on a metrics dict, as generate_report calls them                 *)

\* request-rate samples: 1, 13, 13, 13 and 19, 7, 7, 7 have a recent mean of
\* exactly 1.3 and 0.7 times the overall mean
RequestValues == {0, 1, 7, 13, 19}

RequestSeries == UNION { [1..n -> RequestValues] : n \in 0..MaxSamples }

\* error rates at and above 0.1, memory at and above 0.5 GB
ErrorSeries == { <<>>, <<0>>, <<10>>, <<0, 11>> }

MemorySeries == { <<>>, <<512>>, <<100, 513>> }

CpuSeries == { <<>>, <<50, 90>> }

\* the metrics dict: every series present, or no key at all
MetricsSamples ==
    { [ app_requests |-> r, app_errors |-> e, app_memory |-> m, app_cpu |-> c ] :
          r \in RequestSeries, e \in ErrorSeries, m \in MemorySeries,
          c \in CpuSeries }
    \cup { [k \in {} |-> <<>>] }

MetricsInit ==
    /\ pc = "metrics"
    /\ env \in { [metrics |-> m] : m \in MetricsSamples }
    /\ use_ai = FALSE
    /\ health_data = Unset
    /\ performance_data = Unset
    /\ logs_data = Unset
    /\ network_data = Unset
    /\ backend = [ startup |-> "unchecked", reach |-> "unasked",
                   generate |-> "none", posts |-> 0 ]
    /\ ai_insights = Unset
    /\ master_report = Unset
    /\ sink = [printed |-> FALSE, saved |-> FALSE]

\* health_data = self.generate_detailed_health_report(metrics)
CallGenerateDetailedHealthReport ==
    /\ pc = "metrics"
    /\ LET got == generate_detailed_health_report(env.metrics)
       IN  IF IsRaise(got)
           THEN pc' = "raised" /\ health_data' = health_data
           ELSE pc' = "metrics_trends" /\ health_data' = got
    /\ UNCHANGED <<env, use_ai, performance_data, logs_data, network_data,
                   backend, ai_insights, master_report, sink>>

\* trends = self.analyze_trends(metrics)
CallAnalyzeTrends ==
    /\ pc = "metrics_trends"
    /\ performance_data' = [trends |-> analyze_trends(env.metrics)]
    /\ pc' = "metrics_done"
    /\ UNCHANGED <<env, use_ai, health_data, logs_data, network_data,
                   backend, ai_insights, master_report, sink>>

MetricsNext ==
    \/ CallGenerateDetailedHealthReport
    \/ CallAnalyzeTrends

SpecMetrics == MetricsInit /\ [][MetricsNext]_vars

----------------------------------------------------------------------------
(* NetworkAnalyzer.analyze_network_health called on an instance, with the  *)
(* target list of __init__ or one a caller has assigned                    *)

TargetLists ==
    { target_services, HttpTargets, PingTargets, {"localhost:5000", "8.8.8.8"},
      {"localhost:5000"}, {} }

ProbeAnswers ==
    { [ ping |-> p, http |-> HttpAnswers(k, "200", "timeout"), dns |-> d ] :
          p \in [PingTargets -> {"ok", "fail"}],
          k \in 0..Cardinality(HttpTargets),
          d \in [dns_hosts -> DnsOutcomes] }

NetworkInit ==
    /\ pc = "net"
    /\ env \in { [target_services |-> t, answers |-> a] :
                     t \in TargetLists, a \in ProbeAnswers }
    /\ use_ai = FALSE
    /\ health_data = Unset
    /\ performance_data = Unset
    /\ logs_data = Unset
    /\ network_data = Unset
    /\ backend = [ startup |-> "unchecked", reach |-> "unasked",
                   generate |-> "none", posts |-> 0 ]
    /\ ai_insights = Unset
    /\ master_report = Unset
    /\ sink = [printed |-> FALSE, saved |-> FALSE]

\* nothing in analyze_network_health catches: an exception leaves the call
CallAnalyzeNetworkHealth ==
    /\ pc = "net"
    /\ LET got == analyze_network_health_of(env.target_services,
                                            env.answers.ping, env.answers.http,
                                            env.answers.dns)
       IN  IF IsRaise(got)
           THEN pc' = "raised" /\ network_data' = network_data
           ELSE pc' = "net_done" /\ network_data' = got
    /\ UNCHANGED <<env, use_ai, health_data, performance_data, logs_data,
                   backend, ai_insights, master_report, sink>>

NetworkNext == CallAnalyzeNetworkHealth

SpecNetwork == NetworkInit /\ [][NetworkNext]_vars

----------------------------------------------------------------------------
(* NetworkAnalyzer.analyze_network_health on a fresh instance, one action  *)
(* per loop iteration.  network_data holds the locals of the call: the     *)
(* results dict and the position of the running loop                       *)

\* self.target_services in list order
target_services_list == HttpTargetOrder \o <<"8.8.8.8", "1.1.1.1">>

\* dns_hosts in list order
dns_hosts_list == <<"google.com", "github.com", "docker.com">>

ProbeOutcomes ==
    { [ping |-> p, http |-> h, dns |-> d] :
          p \in [PingTargets -> {"ok", "fail", "timeout"}],
          h \in [HttpTargets -> {"200", "non200", "timeout"}],
          d \in [dns_hosts -> DnsOutcomes] }

ProbesInit ==
    /\ pc = "probe_ping"
    /\ env \in [answers : ProbeOutcomes]
    /\ use_ai = FALSE
    /\ health_data = Unset
    /\ performance_data = Unset
    /\ logs_data = Unset
    /\ network_data = [ cursor |-> 1, ping_results |-> <<>>,
                        http_results |-> <<>>, dns_results |-> <<>>,
                        summary |-> <<>> ]
    /\ backend = [ startup |-> "unchecked", reach |-> "unasked",
                   generate |-> "none", posts |-> 0 ]
    /\ ai_insights = Unset
    /\ master_report = Unset
    /\ sink = [printed |-> FALSE, saved |-> FALSE]

\* one iteration of `for target in self.target_services` of the ping loop
ProbePing ==
    /\ pc = "probe_ping"
    /\ LET target == target_services_list[network_data.cursor]
           ping_result == ping_service(target, env.answers.ping[target])
           last == network_data.cursor = Len(target_services_list)
           after == [network_data EXCEPT
                        !.cursor = IF last THEN 1 ELSE @ + 1]
       IN  IF StartsWithHttp(target)
           THEN /\ network_data' = after
                /\ pc' = IF last THEN "probe_http" ELSE pc
           ELSE IF IsRaise(ping_result)
           THEN pc' = "raised" /\ network_data' = network_data
           ELSE /\ network_data' =
                       [after EXCEPT !.ping_results = Append(@, ping_result)]
                /\ pc' = IF last THEN "probe_http" ELSE pc
    /\ UNCHANGED <<env, use_ai, health_data, performance_data, logs_data,
                   backend, ai_insights, master_report, sink>>

\* one iteration of the HTTP loop
ProbeHttp ==
    /\ pc = "probe_http"
    /\ LET target == target_services_list[network_data.cursor]
           http_result == http_response_time(target, env.answers.http[target])
           last == network_data.cursor = Len(target_services_list)
           after == [network_data EXCEPT
                        !.cursor = IF last THEN 1 ELSE @ + 1]
       IN  IF ~StartsWithHttp(target)
           THEN /\ network_data' = after
                /\ pc' = IF last THEN "probe_dns" ELSE pc
           ELSE IF IsRaise(http_result)
           THEN pc' = "raised" /\ network_data' = network_data
           ELSE /\ network_data' =
                       [after EXCEPT !.http_results = Append(@, http_result)]
                /\ pc' = IF last THEN "probe_dns" ELSE pc
    /\ UNCHANGED <<env, use_ai, health_data, performance_data, logs_data,
                   backend, ai_insights, master_report, sink>>

\* one iteration of `for host in dns_hosts`
ProbeDns ==
    /\ pc = "probe_dns"
    /\ LET host == dns_hosts_list[network_data.cursor]
           dns_result == check_dns_resolution(host, env.answers.dns[host])
           last == network_data.cursor = Len(dns_hosts_list)
       IN  IF IsRaise(dns_result)
           THEN pc' = "raised" /\ network_data' = network_data
           ELSE /\ network_data' =
                       [network_data EXCEPT
                           !.cursor = IF last THEN 1 ELSE @ + 1,
                           !.dns_results = Append(@, dns_result)]
                /\ pc' = IF last THEN "probe_summary" ELSE pc
    /\ UNCHANGED <<env, use_ai, health_data, performance_data, logs_data,
                   backend, ai_insights, master_report, sink>>

\* results['summary'] = {...}; return results
ProbeSummary ==
    /\ pc = "probe_summary"
    /\ LET count(results, field) ==
               Cardinality({i \in 1..Len(results) : results[i][field]})
           ping_total ==
               Cardinality({i \in 1..Len(target_services_list) :
                               ~StartsWithHttp(target_services_list[i])})
           http_total ==
               Cardinality({i \in 1..Len(target_services_list) :
                               StartsWithHttp(target_services_list[i])})
       IN  IF ping_total = 0 \/ http_total = 0
           THEN pc' = "raised" /\ network_data' = network_data
           ELSE /\ network_data' =
                     [network_data EXCEPT !.summary =
                        [ ping_availability |->
                              (count(network_data.ping_results, "available")
                                 * 100) \div ping_total,
                          http_availability |->
                              (count(network_data.http_results, "available")
                                 * 100) \div http_total,
                          dns_availability |->
                              (count(network_data.dns_results, "resolved")
                                 * 100) \div Len(dns_hosts_list),
                          total_checks |-> Len(target_services_list)
                                           + Len(dns_hosts_list) ]]
                /\ pc' = "probe_done"
    /\ UNCHANGED <<env, use_ai, health_data, performance_data, logs_data,
                   backend, ai_insights, master_report, sink>>

ProbesNext ==
    \/ ProbePing
    \/ ProbeHttp
    \/ ProbeDns
    \/ ProbeSummary

SpecProbes == ProbesInit /\ [][ProbesNext]_vars

----------------------------------------------------------------------------
(* MasterAnalyzer.analyze_logs_patterns, one action per query sent to the  *)
(* log store.  logs_data holds the locals of the call: log_entries, the    *)
(* position in alternative_queries, the queries sent so far, the texts     *)
(* handed to analyze_with_patterns so far, and the dict returned           *)

\* the query of get_loki_logs
primary_query == "job=containerlogs"

\* answers of the primary query: as in a run of main(), and also a body
\* that is no JSON and a stream without values
LogsPrimaryAnswers ==
    PrimaryAnswers
    \cup { [kind |-> "badjson"], [kind |-> "ok", streams |-> <<Stream(<<>>)>>] }

\* any answer to any of the alternative queries
LogsAltAnswers == [1..Len(alternative_queries) -> AltMisses \cup AltHits]

LogsInit ==
    /\ pc = "logs_primary"
    /\ \E i \in BOOLEAN, p \in LogsPrimaryAnswers :
       \E a \in IF i /\ PrimaryIsEmpty(p) THEN LogsAltAnswers ELSE {NoAlts} :
          env = [import_ok |-> i, primary |-> p, alts |-> a]
    /\ use_ai = FALSE
    /\ health_data = Unset
    /\ performance_data = Unset
    /\ logs_data = [ log_entries |-> <<>>, cursor |-> 1, issued |-> <<>>,
                     analyzed |-> <<>>, result |-> Unset ]
    /\ network_data = Unset
    /\ backend = [ startup |-> "unchecked", reach |-> "unasked",
                   generate |-> "none", posts |-> 0 ]
    /\ ai_insights = Unset
    /\ master_report = Unset
    /\ sink = [printed |-> FALSE, saved |-> FALSE]

\* the dict of the outer `except Exception`
logs_failed ==
    [ error |-> "Log analysis failed", alert_level |-> "ERROR",
      entries_analyzed |-> 0 ]

\* the import, get_loki_logs(hours=2) and the loops over its payload
QueryPrimary ==
    /\ pc = "logs_primary"
    /\ IF ~env.import_ok
       THEN /\ logs_data' = [logs_data EXCEPT !.result = logs_failed]
            /\ pc' = "logs_done"
       ELSE
       LET loki == get_loki_logs(env.primary)
           sent == [logs_data EXCEPT !.issued = Append(@, primary_query)]
       IN  IF "error" \in DOMAIN loki
           THEN /\ logs_data' =
                       [sent EXCEPT !.result =
                           [ error |-> loki.error, alert_level |-> "UNKNOWN",
                             entries_analyzed |-> 0 ]]
                /\ pc' = "logs_done"
           ELSE LET first == collect_entries(loki.data.result, 1, <<>>)
                IN  IF first.raised
                    THEN /\ logs_data' = [sent EXCEPT !.result = logs_failed]
                         /\ pc' = "logs_done"
                    ELSE /\ logs_data' =
                                [sent EXCEPT !.log_entries = first.entries]
                         /\ pc' = IF first.entries = <<>>
                                  THEN "logs_alternative" ELSE "logs_analyze"
    /\ UNCHANGED <<env, use_ai, health_data, performance_data, network_data,
                   backend, ai_insights, master_report, sink>>

\* one iteration of `for query in alternative_queries`, inside the inner
\* try whose bare except ends the loop
QueryAlternative ==
    /\ pc = "logs_alternative"
    /\ LET q == logs_data.cursor
           step == alternative_step(env.alts[q], logs_data.log_entries)
       IN  /\ logs_data' =
                  [logs_data EXCEPT
                      !.issued = Append(@, alternative_queries[q]),
                      !.cursor = @ + 1,
                      !.log_entries = step.entries]
           /\ pc' = IF step.stop \/ q = Len(alternative_queries)
                    THEN "logs_analyze" ELSE pc
    /\ UNCHANGED <<env, use_ai, health_data, performance_data, network_data,
                   backend, ai_insights, master_report, sink>>

\* logs_text, analyze_with_patterns and the dict returned
AnalyzeEntries ==
    /\ pc = "logs_analyze"
    /\ LET log_entries == logs_data.log_entries
           logs_text == SubSeq(log_entries, 1,
                               IF Len(log_entries) < LogWindow
                               THEN Len(log_entries) ELSE LogWindow)
           analysis == analyze_with_patterns(logs_text)
       IN  logs_data' =
               [logs_data EXCEPT
                  !.analyzed = Append(@, logs_text),
                  !.result =
                     [ log_analysis |-> analysis,
                       entries_analyzed |-> Len(log_entries),
                       alert_level |-> Get(analysis, "alert_level", "INFO"),
                       detected_patterns |->
                           Get(analysis, "detected_patterns", <<>>),
                       query_used |-> IF log_entries # <<>>
                                      THEN "alternative" ELSE "original" ]]
    /\ pc' = "logs_done"
    /\ UNCHANGED <<env, use_ai, health_data, performance_data, network_data,
                   backend, ai_insights, master_report, sink>>

LogsNext ==
    \/ QueryPrimary
    \/ QueryAlternative
    \/ AnalyzeEntries

SpecLogs == LogsInit /\ [][LogsNext]_vars

----------------------------------------------------------------------------
(* The network calls of one run of main(), in program order, each with the *)
(* timeout argument it is issued with (seconds; 0: the call has none).     *)
(* network_data holds the position in the list and what each call issued   *)
(* so far has observed                                                     *)

\* get_quick_status: four _fast_curl_check calls and docker ps
quick_status_calls ==
    [i \in 1..Len(ServiceOrder) |->
        [call |-> "service check", target |-> ServiceOrder[i], timeout |-> 2]]
    \o << [call |-> "container count", target |-> "docker", timeout |-> 5] >>

\* get_loki_logs, then the alternative queries when it came back empty
log_calls(primary_empty) ==
    << [call |-> "log query", target |-> "loki", timeout |-> 10] >>
    \o (IF primary_empty
        THEN [q \in 1..Len(alternative_queries) |->
                 [call |-> "log query", target |-> "loki", timeout |-> 5]]
        ELSE <<>>)

\* analyze_network_health: the ping loop, the HTTP loop, the DNS loop;
\* socket.gethostbyname takes no timeout
network_calls ==
    << [call |-> "ping", target |-> "8.8.8.8", timeout |-> 10],
       [call |-> "ping", target |-> "1.1.1.1", timeout |-> 10] >>
    \o [i \in 1..Len(ServiceOrder) |->
           [call |-> "http timing", target |-> ServiceOrder[i], timeout |-> 5]]
    \o [i \in 1..Len(dns_hosts_list) |->
           [call |-> "dns resolution", target |-> "resolver", timeout |-> 0]]

\* check_ollama_ready, and the generation request where the code reaches it
readiness_call ==
    << [call |-> "readiness check", target |-> "ollama", timeout |-> 10] >>

generation_calls ==
    IF RequestsBound
    THEN << [call |-> "generation request", target |-> "ollama",
             timeout |-> 8] >>
    ELSE <<>>

\* main: the readiness check; generate_master_report: health, performance,
\* logs, network, and with use_ai the readiness check and the generation
run_calls(primary_empty, use_ai_) ==
    readiness_call \o quick_status_calls \o quick_status_calls
    \o log_calls(primary_empty) \o network_calls
    \o (IF use_ai_ THEN readiness_call \o generation_calls ELSE <<>>)

CallTargets ==
    SeqToSet(ServiceOrder) \cup PingTargets \cup {"docker", "resolver", "ollama"}

\* env.silent: the targets that never respond during the run
CallsInit ==
    /\ pc = "calls"
    /\ \E silent \in SUBSET CallTargets, empty \in BOOLEAN :
          env = [ silent |-> silent,
                  calls |-> run_calls(empty /\ "loki" \notin silent,
                                      "ollama" \notin silent) ]
    /\ use_ai = FALSE
    /\ health_data = Unset
    /\ performance_data = Unset
    /\ logs_data = Unset
    /\ network_data = [cursor |-> 1, observed |-> <<>>]
    /\ backend = [ startup |-> "unchecked", reach |-> "unasked",
                   generate |-> "none", posts |-> 0 ]
    /\ ai_insights = Unset
    /\ master_report = Unset
    /\ sink = [printed |-> FALSE, saved |-> FALSE]

\* the next call of the run is issued.  A target that responds is observed
\* as it answers; a silent one is observed as a timeout when the call has a
\* timeout, each caller turning that into its unavailable value; without a
\* timeout the call waits
IssueCall ==
    /\ pc = "calls"
    /\ LET site == env.calls[network_data.cursor]
           observe(what) ==
               [ cursor |-> network_data.cursor + 1,
                 observed |-> Append(network_data.observed,
                                     [call |-> site.call, saw |-> what]) ]
       IN  IF site.target \notin env.silent
           THEN /\ network_data' = observe("answer")
                /\ pc' = IF network_data.cursor = Len(env.calls)
                         THEN "calls_done" ELSE pc
           ELSE IF site.timeout > 0
           THEN /\ network_data' = observe("timeout")
                /\ pc' = IF network_data.cursor = Len(env.calls)
                         THEN "calls_done" ELSE pc
           ELSE /\ network_data' = network_data
                /\ pc' = "calls_waiting"
    /\ UNCHANGED <<env, use_ai, health_data, performance_data, logs_data,
                   backend, ai_insights, master_report, sink>>

\* a call without a timeout returns only if the callee gives up by itself
\* (the limit of the system resolver, which the program does not set)
CalleeGivesUp ==
    /\ pc = "calls_waiting"
    /\ LET site == env.calls[network_data.cursor]
       IN  network_data' =
               [ cursor |-> network_data.cursor + 1,
                 observed |-> Append(network_data.observed,
                                     [call |-> site.call, saw |-> "error"]) ]
    /\ pc' = IF network_data.cursor = Len(env.calls) THEN "calls_done"
             ELSE "calls"
    /\ UNCHANGED <<env, use_ai, health_data, performance_data, logs_data,
                   backend, ai_insights, master_report, sink>>

CallsNext ==
    \/ IssueCall
    \/ CalleeGivesUp

\* the program takes its own steps; nothing makes the callee give up
SpecCalls == CallsInit /\ [][CallsNext]_vars /\ WF_vars(IssueCall)

----------------------------------------------------------------------------
(* Properties *)

Overall == master_report.summary.overall_status

Recs == master_report.recommendations

AllClear == "System operating perfectly! Recommend documenting configuration"

MaintainEntry == "Maintain current configuration - system perfect"

SummaryFields == {"health", "performance", "logs_alert", "network", "overall_status"}

\* C1: whatever the probes answer, generate_master_report raises nothing,
\* is never stuck before the report is done, and returns a report with the
\* five summary fields and a recommendation list; a failed log or network
\* analysis is scored as data (UNKNOWN / ERROR) next to the levels of the
\* analyses that succeeded.
C1_ReportNeverBlocked ==
    /\ pc # "raised"
    /\ pc # "done" => ENABLED Next
    /\ pc \in {"serializing", "done"} => IsSet(master_report)
    /\ IsSet(master_report) =>
          /\ DOMAIN master_report.summary = SummaryFields
          /\ "recommendations" \in DOMAIN master_report
          /\ Overall \in {"NORMAL", "WARNING", "CRITICAL"}
          /\ master_report.summary.health = health_data.health_level
          /\ master_report.summary.performance
                 = performance_data.performance_level
          /\ "error" \in DOMAIN logs_data
                 => master_report.summary.logs_alert \in {"UNKNOWN", "ERROR"}
          /\ "error" \in DOMAIN network_data
                 => master_report.summary.network = "UNKNOWN"

\* every probe of the run failed and the report is there
C1_Witness ==
    /\ pc = "done"
    /\ IsSet(master_report)
    /\ health_data.quick_status.services.available = 0
    /\ health_data.quick_status.containers.running = 0
    /\ ~health_data.system_metrics_available
    /\ "error" \in DOMAIN logs_data
    /\ "error" \in DOMAIN network_data
    /\ backend.reach = "unavailable"

C2_Levels == {"CRITICAL", "ERROR", "WARNING", "GOOD", "EXCELLENT", "UNKNOWN"}

C2_Weight(level) ==
    CASE level = "CRITICAL" -> 4
      [] level = "ERROR" -> 3
      [] level = "WARNING" -> 2
      [] level = "GOOD" -> 1
      [] level = "EXCELLENT" -> 0
      [] level = "UNKNOWN" -> 1
      [] OTHER -> 1

C2_Sum(h, p, l, n) ==
    C2_Weight(h) + (IF p = "SLOW" THEN 2 ELSE 0) + C2_Weight(l) + C2_Weight(n)

C2_Status(sum) ==
    IF sum >= 6 THEN "CRITICAL" ELSE IF sum >= 4 THEN "WARNING" ELSE "NORMAL"

\* a network dict that _get_network_status maps to the given status
C2_Network(n) ==
    CASE n = "UNKNOWN" -> [error |-> "x", summary |-> [network_availability |-> 0]]
      [] n = "EXCELLENT" -> [summary |-> [http_availability |-> 95]]
      [] n = "GOOD" -> [summary |-> [http_availability |-> 80]]
      [] n = "WARNING" -> [summary |-> [http_availability |-> 60]]
      [] n = "CRITICAL" -> [summary |-> [http_availability |-> 59]]

C2_EveryCombination ==
    \A h \in C2_Levels, p \in {"FAST", "MODERATE", "SLOW"},
       l \in C2_Levels \cup {"INFO"}, n \in C2_Levels \ {"ERROR"} :
        _calculate_overall_status([health_level |-> h],
                                  [performance_level |-> p],
                                  [alert_level |-> l], C2_Network(n))
            = C2_Status(C2_Sum(h, p, l, n))

\* C2: the overall status is the classification (>= 6 CRITICAL, 4..5
\* WARNING, < 4 NORMAL) of the sum of the four table weights, for every
\* combination of levels and in every report.
C2_OverallStatusIsWeightSum ==
    /\ C2_EveryCombination
    /\ IsSet(master_report) =>
          LET sm == master_report.summary
          IN  sm.overall_status
                  = C2_Status(C2_Sum(sm.health, sm.performance, sm.logs_alert,
                                     sm.network))

\* a report whose weights sum to exactly 6
C2_Witness ==
    /\ IsSet(master_report)
    /\ Overall = "CRITICAL"
    /\ C2_Sum(master_report.summary.health, master_report.summary.performance,
              master_report.summary.logs_alert, master_report.summary.network) = 6

C3_Case ==
    /\ IsSet(master_report)
    /\ health_data.quick_status.services.available = 2
    /\ health_data.quick_status.containers.running
           < health_data.quick_status.containers.expected

C3_Others ==
    (IF master_report.summary.performance = "SLOW" THEN 2 ELSE 0)
    + C2_Weight(master_report.summary.logs_alert)
    + C2_Weight(master_report.summary.network)

\* C3 as stated: with 2 of 4 services down and too few containers the
\* health level is CRITICAL and the overall status is CRITICAL whatever the
\* other analyzers report.
C3_CriticalRegardless ==
    C3_Case => master_report.summary.health = "CRITICAL" /\ Overall = "CRITICAL"

\* C3 as amended: with 2 of 4 services down and too few containers the
\* health level is CRITICAL and the overall status is never NORMAL; it is
\* CRITICAL exactly when performance, logs and network together add a
\* weight of 2 or more, and WARNING otherwise.
C3_CriticalHealthNeverNormal ==
    C3_Case =>
        /\ master_report.summary.health = "CRITICAL"
        /\ Overall \in {"WARNING", "CRITICAL"}
        /\ Overall = "CRITICAL" <=> C3_Others >= 2

C3_Witness == C3_Case /\ Overall = "WARNING"

\* C4: the all-clear recommendation is listed only if health, performance,
\* logs and network are all at their best level and at least one log entry
\* was analyzed.
C4_AllClearOnlyWhenAllBest ==
    IsSet(master_report) /\ AllClear \in SeqToSet(Recs) =>
        /\ master_report.summary.health = "EXCELLENT"
        /\ master_report.summary.performance = "FAST"
        /\ master_report.summary.logs_alert = "INFO"
        /\ master_report.summary.network = "EXCELLENT"
        /\ logs_data.entries_analyzed > 0

\* the block of _generate_recommendations an entry belongs to
C5_Rank(r) ==
    CASE r \in { MaintainEntry,
                 "Consider business metrics monitoring for proactive management",
                 "Conduct preventive system inspection" } -> 1
      [] r \in { "Performance optimal - maintain current settings",
                 "Optimize database settings and caching" } -> 2
      [] r \in { "Urgently investigate errors in logs",
                 "Attention: warnings present in logs",
                 "Logs clean - excellent system operation",
                 "Consider log rotation to save space",
                 "Configure Loki for application log collection" } -> 3
      [] r \in { "Check database connections", "Analyze slow queries" } -> 4
      [] r = AllClear -> 5

C5_Ordered(recs) ==
    \A i \in 1..Len(recs), j \in 1..Len(recs) :
        i < j => recs[i] # recs[j] /\ C5_Rank(recs[i]) <= C5_Rank(recs[j])

C5_LogInputs ==
    { [alert_level |-> a, entries_analyzed |-> e, detected_patterns |-> d] :
          a \in {"INFO", "WARNING", "ERROR", "UNKNOWN"},
          e \in {0, 1, LogWindow, MaxEntries},
          d \in { <<>>, <<"database_errors">>, <<"performance_issues">>,
                  <<"database_errors", "performance_issues">>, PatternTypes } }
    \cup { [alert_level |-> "UNKNOWN", entries_analyzed |-> 0, error |-> "x"] }

C5_EveryInput ==
    \A score \in {100, 99, 90, 89, 70, 69, 0 - 25},
       p \in {"FAST", "MODERATE", "SLOW"}, logs \in C5_LogInputs :
        C5_Ordered(_generate_recommendations([health_score |-> score],
                                             [performance_level |-> p], logs))

\* C5: the recommendation list has no duplicate and is ordered health,
\* performance, log level / log volume, detected patterns, all-clear.
C5_RecommendationsOrdered ==
    /\ C5_EveryInput
    /\ IsSet(master_report) => C5_Ordered(Recs)

\* a report whose list holds an entry of each of the five blocks
C5_Witness ==
    /\ IsSet(master_report)
    /\ {C5_Rank(Recs[i]) : i \in 1..Len(Recs)} = 1..5

C6_Case ==
    /\ IsSet(master_report)
    /\ health_data.quick_status.services.available
           = health_data.quick_status.services.total
    /\ health_data.quick_status.containers.running
           = health_data.quick_status.containers.expected
    /\ performance_data.performance_level = "FAST"
    /\ "error" \notin DOMAIN network_data
    /\ network_data.summary.http_availability = 100
    /\ network_data.summary.ping_availability = 100
    /\ network_data.summary.dns_availability = 100

\* C6 as stated: all services, containers and network targets up and
\* performance FAST give NORMAL, with the all-clear entry at the head of
\* the list when a log entry was observed and absent when none was.
C6_AllClearAtHead ==
    C6_Case =>
        /\ Overall = "NORMAL"
        /\ logs_data.entries_analyzed > 0 => Head(Recs) = AllClear
        /\ logs_data.entries_analyzed = 0 => AllClear \notin SeqToSet(Recs)

\* C6 as amended: in that situation the overall status is NORMAL, the head
\* entry is the health entry "Maintain current configuration", and the
\* all-clear entry is the last entry of the list when a log entry was
\* observed and the logs alert level is INFO, and absent otherwise (so
\* always absent with 0 log entries).
C6_AllClearAtTail ==
    C6_Case =>
        /\ Overall = "NORMAL"
        /\ Head(Recs) = MaintainEntry
        /\ AllClear \in SeqToSet(Recs)
               <=> (logs_data.entries_analyzed > 0
                    /\ master_report.summary.logs_alert = "INFO")
        /\ AllClear \in SeqToSet(Recs) => Recs[Len(Recs)] = AllClear

C6_Witness ==
    /\ C6_Case
    /\ logs_data.entries_analyzed > 0
    /\ Recs[Len(Recs)] = AllClear
    /\ Head(Recs) # AllClear

\* C7: in a run that finds the text-generation backend unavailable, at
\* start-up or inside generate_ai_insights, the insight block holds a
\* non-empty insight text made by the static fallback.
C7_FallbackWheneverBackendDown ==
    /\ IsSet(ai_insights)
    /\ backend.startup = "unavailable" \/ backend.reach = "unavailable"
    => /\ "insights" \in DOMAIN ai_insights
       /\ ai_insights.insights # <<>>
       /\ Get(ai_insights, "static_insights", FALSE)

C8_Case ==
    /\ IsSet(ai_insights)
    /\ use_ai
    /\ backend.reach = "ready"
    /\ backend.generate \in {"timeout", "connerr", "non200"}

C9_GeneratedTextWhenBackendAnswers ==
    /\ IsSet(ai_insights)
    /\ use_ai
    /\ backend.reach = "ready"
    /\ backend.generate = "200"
    => /\ ai_insights.ai_available = TRUE
       /\ "model_used" \in DOMAIN ai_insights
       /\ "static_insights" \notin DOMAIN ai_insights

C10_Available == health_data.quick_status.services.available

C10_Total == health_data.quick_status.services.total

C10_ContainersFull ==
    health_data.quick_status.containers.running
        >= health_data.quick_status.containers.expected

\* C10 as stated: the health severity is EXCELLENT or GOOD with all
\* services reachable, WARNING with at least half but not all, CRITICAL
\* with fewer than half.
C10_SeverityByHalves ==
    IsSet(health_data) =>
        /\ C10_Available = C10_Total
               => health_data.health_level \in {"EXCELLENT", "GOOD"}
        /\ C10_Available < C10_Total /\ 2 * C10_Available >= C10_Total
               => health_data.health_level = "WARNING"
        /\ 2 * C10_Available < C10_Total
               => health_data.health_level = "CRITICAL"

\* C10 as amended: the status label of the quick status follows the rule
\* (all reachable OK, at least half PARTIAL, fewer CRITICAL); the health
\* level is EXCELLENT or GOOD with all services reachable (GOOD when
\* containers are missing), WARNING only with exactly one service
\* unreachable and no container missing, and CRITICAL in every other case.
C10_SeverityByPenalties ==
    IsSet(health_data) =>
        /\ health_data.quick_status.status
               = (IF C10_Available = C10_Total THEN "OK"
                  ELSE IF 2 * C10_Available >= C10_Total THEN "PARTIAL"
                  ELSE "CRITICAL")
        /\ health_data.health_level
               = (IF C10_Available = C10_Total
                  THEN (IF C10_ContainersFull THEN "EXCELLENT" ELSE "GOOD")
                  ELSE IF C10_Available = C10_Total - 1 /\ C10_ContainersFull
                  THEN "WARNING"
                  ELSE "CRITICAL")

C10_Witness ==
    /\ IsSet(health_data)
    /\ C10_Available = 2
    /\ health_data.quick_status.status = "PARTIAL"
    /\ health_data.health_level = "CRITICAL"

C11_Rank(level) ==
    CASE level = "EXCELLENT" -> 0
      [] level = "GOOD" -> 1
      [] level = "WARNING" -> 2
      [] level = "CRITICAL" -> 3

C11_LabelRank(label) ==
    CASE label = "OK" -> 0
      [] label = "PARTIAL" -> 1
      [] label = "CRITICAL" -> 2

\* the health analyses of the other hosts this one is compared with: k of
\* the services reachable, any answer of the container runtime
C11_Others ==
    { analyze_system_health(ServiceAnswers(k, "timeout"), d, env.rt, env.script) :
          k \in 0..TotalServices, d \in DockerOutcomes }

C11_Short(h) == h.quick_status.containers.running < h.quick_status.containers.expected

\* C11 as stated: the health severity depends on (available, total) only,
\* so two hosts with the same available count have the same severity
\* whatever their container counts, and fewer available services never
\* give a milder severity.
C11_SeverityOfAvailableOnly ==
    IsSet(health_data) =>
        \A o \in C11_Others :
            /\ o.quick_status.services.available = C10_Available
                   => o.health_level = health_data.health_level
            /\ o.quick_status.services.available <= C10_Available
                   => C11_Rank(o.health_level) >= C11_Rank(health_data.health_level)

\* C11 as amended: the status label is a function of (available, total)
\* only and never gets milder with fewer available services; the health
\* severity is a function of (available, total) and of whether containers
\* are missing, and for hosts that agree on the latter it never gets milder
\* with fewer available services.
C11_SeverityOfAvailableAndContainers ==
    IsSet(health_data) =>
        \A o \in C11_Others :
            /\ o.quick_status.services.available = C10_Available
                   => o.quick_status.status = health_data.quick_status.status
            /\ o.quick_status.services.available <= C10_Available
                   => C11_LabelRank(o.quick_status.status)
                          >= C11_LabelRank(health_data.quick_status.status)
            /\ C11_Short(o) = C11_Short(health_data) =>
                  /\ o.quick_status.services.available = C10_Available
                         => o.health_level = health_data.health_level
                  /\ o.quick_status.services.available <= C10_Available
                         => C11_Rank(o.health_level)
                                >= C11_Rank(health_data.health_level)

\* all services reachable and a container missing: GOOD, where the same
\* available count with all containers gives EXCELLENT
C11_Witness ==
    /\ IsSet(health_data)
    /\ C10_Available = C10_Total
    /\ C11_Short(health_data)
    /\ health_data.health_level = "GOOD"
    /\ \E o \in C11_Others :
          /\ o.quick_status.services.available = C10_Available
          /\ o.health_level = "EXCELLENT"

\* C12: every quick status has services.available <= services.total and
\* containers.running <= containers.expected.
C12_AvailableWithinTotal ==
    IsSet(health_data) =>
        /\ health_data.quick_status.services.available
               <= health_data.quick_status.services.total
        /\ health_data.quick_status.containers.running
               <= health_data.quick_status.containers.expected

\* C13: all four service checks are made whatever the others answer;
\* services.available is the number of checks answered with 200, each
\* other answer lowering it by one, and a failed container-runtime query
\* gives containers.running = 0 without an exception.
C13_ChecksIndependent ==
    pc \in {"bridge", "bridge_performance", "bridge_done"} =>
        /\ pc # "bridge_done" => ENABLED BridgeNext
        /\ IsSet(health_data) =>
              LET qs == health_data.quick_status
              IN  /\ ~IsRaise(health_data)
                  /\ DOMAIN qs.services.details = ServiceNames
                  /\ \A s \in ServiceNames :
                        qs.services.details[s] = (env.svc[s] = "200")
                  /\ qs.services.available
                         = Cardinality({s \in ServiceNames : env.svc[s] = "200"})
                  /\ qs.services.available
                         = TotalServices
                           - Cardinality({s \in ServiceNames : env.svc[s] # "200"})
                  /\ env.docker.kind # "ok" => qs.containers.running = 0
                  /\ env.docker.kind = "ok"
                         => qs.containers.running = env.docker.lines

\* one service of each failing kind next to one healthy service, and the
\* container runtime timing out
C13_Witness ==
    /\ IsSet(health_data)
    /\ env.svc = [app |-> "timeout", prometheus |-> "200", loki |-> "connerr",
                  grafana |-> "non200"]
    /\ env.docker.kind = "timeout"
    /\ health_data.quick_status.services.available = 1
    /\ health_data.quick_status.containers.running = 0

\* C17 as stated: FAST below 500 ms, MODERATE from 500 to 1000 ms
\* inclusive, SLOW above 1000 ms.
C17_ModerateFrom500 ==
    IsSet(performance_data) =>
        LET t == performance_data.response_time_ms
        IN  performance_data.performance_level
                = (IF t < 500 THEN "FAST"
                   ELSE IF t <= 1000 THEN "MODERATE" ELSE "SLOW")

\* C17 as amended: FAST up to 500 ms inclusive, MODERATE above 500 and up
\* to 1000 ms inclusive, SLOW above 1000 ms.
C17_ModerateAbove500 ==
    IsSet(performance_data) =>
        LET t == performance_data.response_time_ms
        IN  /\ t = env.rt
            /\ performance_data.performance_level
                   = (IF t <= 500 THEN "FAST"
                      ELSE IF t <= 1000 THEN "MODERATE" ELSE "SLOW")

C17_Witness ==
    /\ IsSet(performance_data)
    /\ performance_data.response_time_ms = 500
    /\ performance_data.performance_level = "FAST"

C14_Results == IF IsSet(logs_data) THEN logs_data.results ELSE <<>>

C14_HasMarked(marker) ==
    \E n \in 1..Len(env.text) : marker \in SeqToSet(env.text[n])

\* C14: the alert level is ERROR if a line carries the ERROR marker, else
\* WARNING if a line carries the WARNING marker, else INFO; an empty or
\* blank text gives total_entries 0, all level counts 0, no detected
\* pattern and INFO, and no error.
C14_AlertLevelByMarkers ==
    pc \in {"text", "text_done"} =>
        \A i \in 1..Len(C14_Results) :
            LET r == C14_Results[i]
            IN  /\ r.alert_level
                       = (IF C14_HasMarked("ERROR") THEN "ERROR"
                          ELSE IF C14_HasMarked("WARNING") THEN "WARNING"
                          ELSE "INFO")
                /\ (\A n \in 1..Len(env.text) : env.text[n] = <<>>) =>
                      /\ r.total_entries = 0
                      /\ r.levels = [INFO |-> 0, WARNING |-> 0, ERROR |-> 0]
                      /\ r.detected_patterns = <<>>
                      /\ r.alert_level = "INFO"
                      /\ "error" \notin DOMAIN r
                      /\ ~IsRaise(r)

\* a WARNING line followed by an ERROR line
C14_Witness ==
    /\ pc = "text_done"
    /\ env.text = <<LineWarn, LineError>>
    /\ C14_Results[1].alert_level = "ERROR"
    /\ C14_Results[1].levels.WARNING = 1

C15_GroupMatches(t) ==
    \E p \in 1..Len(patterns[t]) : \E n \in 1..Len(env.text) :
        MatchesLine(patterns[t][p], env.text[n])

\* C15: a pattern group is listed in detected_patterns exactly when one of
\* its expressions matches somewhere in the text, whatever the case of the
\* letters, and is listed at most once; for "ERROR: connection failed" the
\* database and application groups are listed and the alert level is ERROR.
C15_DetectedIffMatched ==
    pc \in {"text", "text_done"} =>
        \A i \in 1..Len(C14_Results) :
            LET d == C14_Results[i].detected_patterns
            IN  /\ \A t \in SeqToSet(PatternTypes) :
                      (t \in SeqToSet(d)) <=> C15_GroupMatches(t)
                /\ \A a \in 1..Len(d), b \in 1..Len(d) : a # b => d[a] # d[b]
                /\ env.text = <<LineError>> =>
                      /\ {"database_errors", "application_errors"}
                             \subseteq SeqToSet(d)
                      /\ C14_Results[i].alert_level = "ERROR"

C15_Witness ==
    /\ pc = "text_done"
    /\ env.text = <<LineError>>
    /\ C14_Results[1].detected_patterns
           = <<"database_errors", "application_errors">>
    /\ C14_Results[1].alert_level = "ERROR"

\* C16 as stated: two calls on the same text return dicts equal in every
\* field, and a call leaves the pattern table and the analyzer as they were.
C16_EveryFieldEqual ==
    pc \in {"text", "text_done"} =>
        /\ env.self = LogAnalyzer
        /\ \A i \in 1..Len(C14_Results), j \in 1..Len(C14_Results) :
              C14_Results[i] = C14_Results[j]

\* C16 as amended: two calls on the same text return dicts equal in every
\* field but the timestamp, which is the time of the call and never runs
\* backwards; a call leaves the pattern table and the analyzer as they were.
C16_EveryFieldButTimestampEqual ==
    pc \in {"text", "text_done"} =>
        /\ env.self = LogAnalyzer
        /\ env.self.patterns = patterns
        /\ \A i \in 1..Len(C14_Results), j \in 1..Len(C14_Results) :
              /\ DOMAIN C14_Results[i] = DOMAIN C14_Results[j]
              /\ \A k \in DOMAIN C14_Results[i] \ {"timestamp"} :
                    C14_Results[i][k] = C14_Results[j][k]
              /\ i <= j => C14_Results[i].timestamp <= C14_Results[j].timestamp

\* two calls on a text with detected patterns, at different times
C16_Witness ==
    /\ pc = "text_done"
    /\ Len(C14_Results) >= 2
    /\ env.text = <<LineError>>
    /\ C14_Results[1].timestamp # C14_Results[2].timestamp
    /\ C14_Results[1].detected_patterns = C14_Results[2].detected_patterns
    /\ C14_Results[1].detected_patterns # <<>>

C18_Requests == Get(env.metrics, "app_requests", <<>>)

RECURSIVE C18_Total(_, _, _)
C18_Total(xs, lo, hi) == IF lo > hi THEN 0 ELSE xs[lo] + C18_Total(xs, lo + 1, hi)

\* 30 * n * (recent mean) and 30 * n * (overall mean) of the request series
C18_Recent ==
    10 * Len(C18_Requests)
       * C18_Total(C18_Requests, Len(C18_Requests) - 2, Len(C18_Requests))

C18_Overall == 30 * C18_Total(C18_Requests, 1, Len(C18_Requests))

C18_Growth == "Growing load: +30% above average" \in SeqToSet(performance_data.trends)

C18_Decline == "Load decrease: -30% below average" \in SeqToSet(performance_data.trends)

\* C18 as stated: with 3 or more samples growth is reported exactly when
\* the recent mean is >= 1.3 times the overall mean and decline exactly
\* when it is <= 0.7 times it; with fewer samples neither is reported.
C18_ThresholdsIncluded ==
    pc = "metrics_done" =>
        IF Len(C18_Requests) >= 3
        THEN /\ C18_Growth <=> 10 * C18_Recent >= 13 * C18_Overall
             /\ C18_Decline <=> 10 * C18_Recent <= 7 * C18_Overall
        ELSE ~C18_Growth /\ ~C18_Decline

\* C18 as amended: with 3 or more samples growth is reported exactly when
\* the recent mean is > 1.3 times the overall mean and decline exactly when
\* it is < 0.7 times it (a mean exactly at a threshold reports neither);
\* with fewer samples neither is reported.
C18_ThresholdsExcluded ==
    pc = "metrics_done" =>
        IF Len(C18_Requests) >= 3
        THEN /\ C18_Growth <=> 10 * C18_Recent > 13 * C18_Overall
             /\ C18_Decline <=> 10 * C18_Recent < 7 * C18_Overall
        ELSE ~C18_Growth /\ ~C18_Decline

\* the recent mean 13 is exactly 1.3 times the overall mean 10: no trend
C18_Witness ==
    /\ pc = "metrics_done"
    /\ C18_Requests = <<1, 13, 13, 13>>
    /\ ~C18_Growth
    /\ ~C18_Decline

C19_Series(k) == Get(env.metrics, k, <<>>)

C19_AllEmpty ==
    \A k \in {"app_requests", "app_errors", "app_memory", "app_cpu"} :
        C19_Series(k) = <<>>

C19_Numbers ==
    {"total_requests", "total_errors", "error_rate", "avg_rpm", "peak_rpm",
     "avg_memory_mb", "max_memory_mb", "avg_cpu_percent"}

C19_Largest(xs) == CHOOSE m \in SeqToSet(xs) : \A x \in SeqToSet(xs) : x <= m

\* what holds of the two analyses whatever series are empty: nothing is
\* raised, and the numbers of each non-empty series are computed
C19_PartialData ==
    /\ IsSet(health_data) =>
          /\ \A k \in C19_Numbers : health_data[k] \in Nat
          /\ C19_Series("app_requests") # <<>> =>
                /\ health_data.total_requests
                       = 36 * C18_Total(C19_Series("app_requests"), 1,
                                        Len(C19_Series("app_requests")))
                /\ health_data.peak_rpm
                       = 6 * C19_Largest(C19_Series("app_requests"))
          /\ C19_Series("app_errors") # <<>> =>
                health_data.total_errors
                    = 36 * C18_Total(C19_Series("app_errors"), 1,
                                     Len(C19_Series("app_errors")))
          /\ C19_Series("app_memory") # <<>> =>
                health_data.max_memory_mb
                    = 10 * C19_Largest(C19_Series("app_memory"))
          /\ C19_Series("app_cpu") # <<>> =>
                health_data.avg_cpu_percent
                    = (10 * C18_Total(C19_Series("app_cpu"), 1,
                                      Len(C19_Series("app_cpu"))))
                          \div Len(C19_Series("app_cpu"))
    /\ IsSet(performance_data) =>
          DOMAIN performance_data.trends = 1..Len(performance_data.trends)

\* C19 as stated: with all four series empty nothing is raised, every
\* derived number of the health report is zero and no trend is reported;
\* with some series empty the numbers of the others are computed.
C19_EveryNumberZero ==
    pc \in {"metrics", "metrics_trends", "metrics_done", "raised"} =>
        /\ pc # "raised"
        /\ C19_PartialData
        /\ C19_AllEmpty /\ IsSet(health_data) =>
              \A k \in C19_Numbers \cup {"uptime_percentage"} : health_data[k] = 0
        /\ C19_AllEmpty /\ IsSet(performance_data) => performance_data.trends = <<>>

\* C19 as amended: with all four series empty nothing is raised, every
\* derived number of the health report is zero except uptime_percentage,
\* which is 100, the status is NORMAL, the availability HIGH and no trend
\* is reported; with some series empty the numbers of the others are
\* computed.
C19_EveryNumberZeroButUptime ==
    pc \in {"metrics", "metrics_trends", "metrics_done", "raised"} =>
        /\ pc # "raised"
        /\ C19_PartialData
        /\ pc # "metrics_done" => ENABLED MetricsNext
        /\ C19_AllEmpty /\ IsSet(health_data) =>
              /\ \A k \in C19_Numbers : health_data[k] = 0
              /\ health_data.uptime_percentage = 100 * 100
              /\ health_data.status = "NORMAL"
              /\ health_data.availability = "HIGH"
        /\ C19_AllEmpty /\ IsSet(performance_data) => performance_data.trends = <<>>

C19_Witness ==
    /\ pc = "metrics_done"
    /\ C19_AllEmpty
    /\ "app_requests" \in DOMAIN env.metrics
    /\ health_data.avg_rpm = 0
    /\ performance_data.trends = <<>>

C21_Reachable ==
    [ ping |-> {t \in PingTargets : env.answers.ping[t] = "ok"},
      http |-> {t \in HttpTargets : env.answers.http[t] \in {"200", "non200"}},
      dns  |-> {h \in dns_hosts : env.answers.dns[h] = "ok"} ]

C21_Once(results, field, targets) ==
    /\ Len(results) = Cardinality(targets)
    /\ \A t \in targets :
          Cardinality({i \in 1..Len(results) : results[i][field] = t}) = 1

C21_EveryTargetProbedOnce ==
    pc \in {"probe_ping", "probe_http", "probe_dns", "probe_summary",
            "probe_done", "raised"} =>
        /\ pc # "raised"
        /\ pc # "probe_done" => ENABLED ProbesNext
        /\ pc = "probe_done" =>
              /\ C21_Once(network_data.ping_results, "target", PingTargets)
              /\ C21_Once(network_data.http_results, "url", HttpTargets)
              /\ C21_Once(network_data.dns_results, "hostname", dns_hosts)
              /\ network_data.summary.ping_availability =
                     (Cardinality(C21_Reachable.ping) * 100)
                        \div Cardinality(PingTargets)
              /\ network_data.summary.http_availability =
                     (Cardinality(C21_Reachable.http) * 100)
                        \div Cardinality(HttpTargets)
              /\ network_data.summary.dns_availability =
                     (Cardinality(C21_Reachable.dns) * 100)
                        \div Cardinality(dns_hosts)
              /\ network_data.summary =
                     analyze_network_health(env.answers.ping, env.answers.http,
                                            env.answers.dns).summary

C21_Witness ==
    /\ pc = "probe_done"
    /\ env.answers.http["localhost:5000"] = "timeout"
    /\ env.answers.http["localhost:9090"] = "non200"
    /\ env.answers.ping["8.8.8.8"] = "timeout"
    /\ env.answers.dns["google.com"] = "fail"
    /\ Len(network_data.http_results) = 4
    /\ network_data.summary.http_availability = 75
    /\ network_data.summary.ping_availability = 50

\* C22: in every report generation the phases follow START, PROBING,
\* SCORING, INSIGHT, SERIALIZING, DONE: the overall status and the
\* recommendations are computed before insight generation starts and do
\* not wait for it, and no probe is issued after PROBING.
C22_MainRun ==
    pc \in {"start", "health", "performance", "logs", "network", "insights",
            "scoring", "serializing", "done"}

C22_ScoringBeforeInsight ==
    C22_MainRun =>
        /\ pc = "insights" => IsSet(master_report)
        /\ IsSet(ai_insights) => IsSet(master_report)
        /\ pc \in {"insights", "scoring", "serializing", "done"} =>
               /\ IsSet(health_data)
               /\ IsSet(performance_data)
               /\ IsSet(logs_data)
               /\ IsSet(network_data)

\* C23: insight generation has no influence on scoring: with the same
\* health, performance, logs and network results, the report has the same
\* summary (overall status included) and the same recommendations whether
\* the insight block is generated text, the static fallback or the
\* disabled-AI block.
C23_GeneratedText ==
    [ ai_available |-> TRUE, insights |-> <<"generated text">>,
      model_used |-> "tinyllama:latest", response_time |-> "fast" ]

C23_InsightBlocks ==
    { generate_ai_insights(u, i, t, g, health_data, performance_data,
                           logs_data).result :
          u \in BOOLEAN, i \in BOOLEAN, t \in TagsAnswers,
          g \in GenerateKinds }
    \cup {C23_GeneratedText}

C23_ScoringIgnoresInsight ==
    pc \in {"serializing", "done"} =>
        \A other \in C23_InsightBlocks :
            LET report == build_master_report(health_data, performance_data,
                                              logs_data, network_data, other)
            IN  /\ report.summary = master_report.summary
                /\ report.recommendations = master_report.recommendations
                /\ master_report.details.ai_insights = ai_insights

C23_Witness ==
    /\ pc = "done"
    /\ use_ai
    /\ backend.reach = "ready"
    /\ "static_insights" \in DOMAIN ai_insights
    /\ ai_insights.insights # <<>>
    /\ [ai_available |-> FALSE] \in C23_InsightBlocks
    /\ Cardinality(C23_InsightBlocks) = 3
    /\ Overall = "WARNING"
    /\ Len(Recs) > 1

\* C24: a log-store answer that arrives but cannot be parsed, or has an
\* unexpected shape, is scored like an unreachable log store: the same logs
\* alert level in the report and the same weight in the overall status.
C24_Unreachable == analyze_logs_patterns(TRUE, [kind |-> "neterr"], NoAlts)

C24_Malformed ==
    \/ env.primary.kind \in {"badjson", "badtop"}
    \/ /\ env.primary.kind = "ok"
       /\ \E k \in 1..Len(env.primary.streams) : env.primary.streams[k].bad

C24_LogsAlert(logs) == Get(logs, "alert_level", "UNKNOWN")

C24_LogsWeight(logs) == Get(status_weights, Get(logs, "alert_level", "INFO"), 1)

C24_MalformedScoredAsUnreachable ==
    pc = "logs_done" /\ env.import_ok /\ C24_Malformed =>
        /\ C24_LogsAlert(logs_data.result) = C24_LogsAlert(C24_Unreachable)
        /\ C24_LogsWeight(logs_data.result) = C24_LogsWeight(C24_Unreachable)

\* C26: the alternative queries are sent only when the primary query
\* succeeded without entries (never after a primary error, never when the
\* primary query returned entries), in their listed order, and none is sent
\* after one that yielded an entry; the pattern analyzer is then called
\* exactly once, on at most the first 50 entries collected; a failing
\* alternative query never fails the log analysis.
C26_Alternatives == SubSeq(logs_data.issued, 2, Len(logs_data.issued))

C26_AltFailed(q) ==
    \/ env.alts[q].kind \in {"neterr", "badjson", "badtop"}
    \/ /\ env.alts[q].kind = "ok"
       /\ collect_entries(env.alts[q].streams, 1, <<>>).raised

C26_AltYield(q) ==
    IF env.alts[q].kind = "ok"
    THEN collect_entries(env.alts[q].streams, 1, <<>>).entries
    ELSE <<>>

C26_PrimaryEntries ==
    IF env.import_ok /\ env.primary.kind = "ok"
    THEN collect_entries(env.primary.streams, 1, <<>>)
    ELSE [entries |-> <<>>, raised |-> TRUE]

C26_Prefix(n, xs) == SubSeq(xs, 1, IF Len(xs) < n THEN Len(xs) ELSE n)

C30_QueryUsedNamesSource ==
    pc = "logs_done" /\ "query_used" \in DOMAIN logs_data.result =>
        /\ C26_PrimaryEntries.entries # <<>> =>
               logs_data.result.query_used = "original"
        /\ logs_data.result.query_used = "alternative" =>
               /\ C26_Alternatives # <<>>
               /\ logs_data.log_entries # <<>>

\* C25: every network call of a report generation (service check, container
\* count, ping, HTTP timing, DNS resolution, log query, readiness check,
\* generation request) is issued with an explicit timeout, so a target that
\* never responds is observed as unavailable and the run still reaches its
\* end.
C25_EveryCallBounded ==
    /\ pc # "calls_waiting"
    /\ \A i \in 1..(network_data.cursor - 1) : env.calls[i].timeout > 0

C25_SilentTargetNeverStalls ==
    /\ [](pc \in {"calls", "calls_waiting", "calls_done"}
            => C25_EveryCallBounded)
    /\ (pc = "calls") ~> (pc = "calls_done")

\* C27: within one report the health block and the performance block show
\* the same snapshot of the service checks: services_availability of the
\* performance analysis is 100 * available / total of the quick status of
\* the health analysis, also when a service changes while the report is
\* being generated.
C27_SameSnapshot ==
    IsSet(master_report) =>
        LET services ==
                master_report.details.health_analysis.quick_status.services
        IN  master_report.details.performance_analysis.services_availability
                = (100 * services.available) \div services.total

\* C28: one CRITICAL signal is never hidden by the aggregation: with the
\* health level CRITICAL or the network status CRITICAL the overall status
\* is WARNING or CRITICAL, never NORMAL, for every performance level and
\* every alert level the log analysis can produce.
C28_PerformanceLevels == {"FAST", "MODERATE", "SLOW"}

C28_AlertLevels == {"INFO", "WARNING", "ERROR", "UNKNOWN"}

C28_NetworkStatuses == {"EXCELLENT", "GOOD", "WARNING", "CRITICAL", "UNKNOWN"}

C28_HealthLevels == {"EXCELLENT", "GOOD", "WARNING", "CRITICAL"}

C28_EveryCombination ==
    \A h \in C28_HealthLevels, p \in C28_PerformanceLevels,
       l \in C28_AlertLevels, n \in C28_NetworkStatuses :
        h = "CRITICAL" \/ n = "CRITICAL" =>
            classify_weight(total_weight_of(h, p, l, n))
                \in {"WARNING", "CRITICAL"}

C28_CriticalNeverHidden ==
    IsSet(master_report) =>
        /\ master_report.summary.performance \in C28_PerformanceLevels
        /\ master_report.summary.logs_alert \in C28_AlertLevels
        /\ master_report.summary.network \in C28_NetworkStatuses
        /\ master_report.summary.health \in C28_HealthLevels
        /\ \/ master_report.summary.health = "CRITICAL"
           \/ master_report.summary.network = "CRITICAL"
           => Overall \in {"WARNING", "CRITICAL"}
        /\ C28_EveryCombination

C28_Witness ==
    /\ pc = "done"
    /\ master_report.summary.network = "CRITICAL"
    /\ master_report.summary.health = "EXCELLENT"
    /\ master_report.summary.performance = "FAST"
    /\ master_report.summary.logs_alert = "INFO"
    /\ Overall = "WARNING"

\* C29: the health_score of analyze_system_health, shown as score/100, lies
\* in 0..100 for every number of available services and every count of
\* running containers.
C29_ScoreWithinRange ==
    pc \in {"bridge_performance", "bridge_done"} =>
        health_data.health_score \in 0..100

====
